---- MODULE Spec2Model ----
(***************************************************************************)
(* Model of the go-starter HTTP service: the middleware chain wired in     *)
(* cmd/app/main.go (LoggerMiddleware, SecurityHeadersMiddleware,           *)
(* RateLimitMiddleware) in front of the route handlers, and the            *)
(* per-client token buckets (golang.org/x/time/rate) the rate limiter      *)
(* keeps in RateLimiter.limiters.                                          *)
(*                                                                         *)
(* Time.  The clock `now` counts ticks of 1/(rps*TicksPerToken) seconds,   *)
(* so a bucket refills one token every TicksPerToken ticks and one second  *)
(* is rps*TicksPerToken ticks.  Token counts are kept in units of          *)
(* 1/TicksPerToken token, which makes rate.Limit.tokensFromDuration and    *)
(* durationFromTokens exact: d ticks <-> d units.  In these units the      *)
(* limiter behaves the same for every rps >= 1, so RateLimiter.rps is not  *)
(* part of the state: it fixes the length of a tick, and the properties    *)
(* that speak of seconds range over RpsValues.  (rps = 0 and rate.Inf,     *)
(* which x/time/rate treats apart, are outside the model.)                 *)
(*                                                                         *)
(* The token service (services.AuthService on github.com/golang-jwt/jwt/v5)*)
(* and middleware.AuthMiddleware have a specification of their own,        *)
(* SpecAuth, with a clock of SubSecond ticks per second; so has the        *)
(* start-up of the process (database.New, pingWithRetry and main),         *)
(* SpecStartup, whose clock counts whole seconds.                          *)
(***************************************************************************)
EXTENDS Integers, Sequences, FiniteSets, TLC

\* ---------------------------------------------------------------- bounds
MaxReq == 2
MaxBurst == 2
TicksPerToken == 1
MaxTime == 2
MaxBuckets == 2
\* user ids 1..MaxUser
MaxUser == 2
\* clock ticks per second in SpecAuth
SubSecond == 2
\* changes made to a token after it was issued
MaxEdits == 2
\* longest PingContext call, in seconds
MaxPing == 2
\* requests to /auth/register and /auth/login
MaxAReq == 2
\* longest value of RATE_LIMIT_RPS and RATE_LIMIT_BURST, in characters
MaxValueLen == 2
\* denied requests of one address that are in their denial path together
MaxDenied == 2

\* ------------------------------------------------------------- constants
StatusOK == 200
StatusNotFound == 404
StatusTooManyRequests == 429

Requests == 1..MaxReq
Addrs == {"a", "b"}
HeaderValues == {"", "a"}
Targets == {"GET /healthz", "GET /missing"}
XffValues == {"", "10.0.0.1", "10.0.0.2", "10.0.0.1, 10.0.0.2", "a"}
XriValues == {"", "10.0.0.1", "10.0.0.3", "b"}
RemoteValues == {"10.0.0.1:80", "10.0.0.4:80", "a", "b", ""}
NoBucket == 0
RpsValues == {1, 2}

VARIABLES
    now,        \* time.Now(), in ticks
    burst,      \* RateLimiter.burst
    limiters,   \* RateLimiter.limiters: client address -> bucket (NoBucket: absent)
    buckets,    \* the rate.Limiter objects allocated so far, by address in the heap
    req,        \* the in-flight requests, one goroutine each
    xff, xri, remoteAddr, clientIP, ipDone, \* one call of getClientIP
    clock,        \* time.Now() of the token service, in ticks of 1/SubSecond s
    decodeFirst,  \* jwt.Parser decodes the signature before it calls the Keyfunc
    token,        \* the token string at hand
    issued,       \* the token as generateToken returned it, and when
    edits,        \* number of changes made to it since
    result,       \* what the last ValidateToken call returned
    authz,        \* the Authorization header of the protected request
    resp,         \* what AuthMiddleware and the handler behind it did
    spc,          \* where main is
    sclock,       \* seconds since database.New made its context
    ctxDone,      \* that context is done (its 10 s are over)
    attempt,      \* pingWithRetry: i
    pingEnds, pingOK,  \* the PingContext call under way: when and how it ends by itself
    waitEnds,     \* when time.After fires
    probes,       \* the PingContext calls that returned: <<start, end, ok>>
    waits,        \* the selects that returned: <<from, to, by>>
    perr,         \* pingWithRetry: err
    dbOpen,       \* the *sql.DB handle: "none", "open", "closed"
    newErr,       \* what database.New returned: "pending", "nil", "open", "ping"
    listening,    \* srv.ListenAndServe is accepting
    accepted,     \* requests accepted so far
    mpc,          \* where main is once the server runs
    sig,          \* the interrupt signal: "none", "pending" (in quit), "taken"
    grace,        \* seconds since srv.Shutdown was called
    conns,        \* the connections of the server, one request each
    report,       \* the last line main logged on its way out
    cleaner,      \* the goroutine of RateLimiter.cleanup
    resources,    \* the database handle and the logger main has to release
    env,          \* the environment config.Load reads
    cfg,          \* what config.Load returned
    boot,         \* what main has initialised
    users,        \* the rows of the users table
    served,       \* requests to /auth/register and /auth/login so far
    areq,         \* the handlers of /auth/register and /auth/login that run
    bucket,       \* one rate.Limiter, used by admitted and denied requests
    twin,         \* the same rate.Limiter used by the admitted requests only
    denied,       \* the denied requests between their Allow() and their Cancel()
    tx            \* one call of DB.WithTransaction

limiterVars == <<now, burst, limiters, buckets, req>>
ipVars == <<xff, xri, remoteAddr, clientIP, ipDone>>
authVars == <<clock, decodeFirst, token, issued, edits, result, authz, resp>>
startVars == <<spc, sclock, ctxDone, attempt, pingEnds, pingOK, waitEnds, probes,
               waits, perr, dbOpen, newErr, listening, accepted>>
shutVars == <<mpc, sig, grace, conns, report, cleaner, resources>>
cfgVars == <<env, cfg, boot>>
acctVars == <<users, served, areq>>
bucketVars == <<bucket, twin, denied>>
vars == <<now, burst, limiters, buckets, req, xff, xri, remoteAddr, clientIP, ipDone,
          clock, decodeFirst, token, issued, edits, result, authz, resp,
          spc, sclock, ctxDone, attempt, pingEnds, pingOK, waitEnds, probes,
          waits, perr, dbOpen, newErr, listening, accepted,
          mpc, sig, grace, conns, report, cleaner, resources,
          env, cfg, boot, users, served, areq, bucket, twin, denied, tx>>
\* what the actions of one specification leave alone
exceptLimiter == <<ipVars, authVars, startVars, shutVars, cfgVars, acctVars, bucketVars, tx>>
exceptIP == <<limiterVars, authVars, startVars, shutVars, cfgVars, acctVars, bucketVars, tx>>
exceptAuth == <<limiterVars, ipVars, startVars, shutVars, cfgVars, acctVars, bucketVars, tx>>
exceptStartup == <<limiterVars, ipVars, authVars, shutVars, cfgVars, acctVars, bucketVars, tx>>
exceptShutdown == <<limiterVars, ipVars, authVars, startVars, cfgVars, acctVars, bucketVars, tx>>
exceptConfig == <<limiterVars, ipVars, authVars, startVars, shutVars, acctVars, bucketVars, tx>>
exceptAccounts == <<limiterVars, ipVars, authVars, startVars, shutVars, cfgVars, bucketVars, tx>>
exceptBucket == <<limiters, buckets, req, ipVars, authVars, startVars, shutVars, cfgVars,
                  acctVars, tx>>
exceptTx == <<limiterVars, ipVars, authVars, startVars, shutVars, cfgVars, acctVars,
              bucketVars>>

\* --------------------------------------------------------- pure helpers
Min(a, b) == IF a <= b THEN a ELSE b
Max(a, b) == IF a >= b THEN a ELSE b

\* (mutant) X-Real-IP wins over X-Forwarded-For
getClientIPRealFirst(fwd, real, remote) ==
    IF real # "" THEN real
    ELSE IF fwd # "" THEN fwd
    ELSE remote

\* getClientIP: X-Forwarded-For verbatim, else X-Real-IP, else RemoteAddr.
getClientIP(fwd, real, remote) ==
    IF fwd # "" THEN fwd
    ELSE IF real # "" THEN real
    ELSE remote

\* rate.Limit.tokensFromDuration / durationFromTokens in model units.
tokensFromDuration(d) == d
durationFromTokens(t) == t

\* (mutant) a bucket that starts empty
NewLimiterEmpty(ip) ==
    [key |-> ip, born |-> now, tokens |-> 0, last |-> now, lastEvent |-> 0]

\* rate.NewLimiter(rate.Limit(rl.rps), rl.burst): a full bucket.
\* (key and born are not fields of rate.Limiter: they record whose bucket it is
\* and when getLimiter created it.)
NewLimiter(ip) ==
    [key |-> ip, born |-> now,
     tokens |-> burst * TicksPerToken, last |-> 0, lastEvent |-> 0]

\* (mutant) refill without the cap at burst
advanceUncapped(lim, t) ==
    lim.tokens + tokensFromDuration(t - (IF t < lim.last THEN t ELSE lim.last))

\* Limiter.advance(t): the token count at time t, capped at burst.
advance(lim, t) ==
    LET last == IF t < lim.last THEN t ELSE lim.last
        tokens == lim.tokens + tokensFromDuration(t - last)
    IN  Min(tokens, burst * TicksPerToken)

\* Limiter.reserveN(t, 1, maxFutureWait): <<reservation, limiter after>>.
\* maxFutureWait is 0 for Allow() and InfDuration (-1 here) for Reserve().
reserveN(lim, t, maxFutureWait) ==
    LET tokens == advance(lim, t) - TicksPerToken
        waitDuration == IF tokens < 0 THEN durationFromTokens(-tokens) ELSE 0
        ok == /\ 1 <= burst
              /\ (maxFutureWait < 0 \/ waitDuration <= maxFutureWait)
    IN  IF ok
        THEN << [ok |-> TRUE, tokens |-> 1, timeToAct |-> t + waitDuration],
                [lim EXCEPT !.tokens = tokens, !.last = t,
                            !.lastEvent = t + waitDuration] >>
        ELSE << [ok |-> FALSE, tokens |-> 0, timeToAct |-> 0], lim >>

\* (mutant) the delay without the clamp at 0
DelayFromUnclamped(r, t) == r.timeToAct - t

\* Reservation.DelayFrom(t).
DelayFrom(r, t) == Max(r.timeToAct - t, 0)

\* Reservation.CancelAt(t): the limiter after the cancellation.
CancelAt(r, lim, t) ==
    IF ~r.ok \/ r.tokens = 0 \/ r.timeToAct < t THEN lim
    ELSE
      LET restoreTokens == r.tokens * TicksPerToken
                             - tokensFromDuration(lim.lastEvent - r.timeToAct)
      IN  IF restoreTokens <= 0 THEN lim
          ELSE
            LET tokens == Min(advance(lim, t) + restoreTokens, burst * TicksPerToken)
                prevEvent == r.timeToAct
                               + durationFromTokens(-(r.tokens * TicksPerToken))
            IN  [lim EXCEPT !.tokens = tokens, !.last = t,
                            !.lastEvent = IF r.timeToAct = lim.lastEvent /\ prevEvent >= t
                                          THEN prevEvent ELSE lim.lastEvent]

\* ------------------------------------------------------------ the router
\* The routes registered in main (mux.Router): a request that matches none is
\* answered by the router's NotFoundHandler without running the middleware.
RouteMatch(target) == target = "GET /healthz"

\* (mutant) the rate limiter added before the logger
MiddlewaresRateLimitFirst == <<"ratelimit", "logger", "security">>

\* router.Use order: the first middleware added is the outermost.
Middlewares == <<"logger", "security", "ratelimit">>

NoRetryAfter == [kind |-> "unset", value |-> 0]
RetryAfterFallback == 60
TooManyRequestsBody == "{\"error\":\"too many requests\",\"message\":\"rate limit exceeded\"}"

NoReservation == [ok |-> FALSE, tokens |-> 0, timeToAct |-> 0]

\* a request and its response writer, before the server has seen it
NewRequest ==
    [pc |-> "new", target |-> "", ip |-> "", depth |-> 0, lim |-> NoBucket,
     decision |-> "none", res |-> NoReservation,
     retryAfter |-> NoRetryAfter,
     headers |-> {}, status |-> 0, statusCode |-> 0, body |-> "", writer |-> "none",
     nextCalls |-> 0, logs |-> <<>>, trace |-> <<>>]

\* LoggerMiddleware up to next.ServeHTTP: request id, X-Request-ID, wrapped writer.
LoggerBefore(q) ==
    [q EXCEPT !.headers = @ \cup {"X-Request-ID"},
              !.statusCode = StatusOK,
              !.trace = Append(@, "logger")]

\* LoggerMiddleware after next.ServeHTTP returned: the "http request" record.
LoggerAfter(q) ==
    [q EXCEPT !.logs = Append(@, [msg |-> "http request", status |-> q.statusCode,
                                  client_ip |-> q.ip]),
              !.trace = Append(@, "log")]

\* SecurityHeadersMiddleware: fixed response headers, then next.ServeHTTP.
SecurityHeaders(q) ==
    [q EXCEPT !.headers = @ \cup {"X-Content-Type-Options", "X-Frame-Options"},
              !.trace = Append(@, "security")]

\* the route handler (HealthHandler.Healthz), the database being up: 200
Healthz(q) ==
    [q EXCEPT !.headers = @ \cup {"Content-Type"},
              !.status = StatusOK,
              !.statusCode = StatusOK,
              !.body = "health",
              !.writer = "handler",
              !.trace = Append(@, "handler")]

\* the router's answer to a request no route matches: 404
NotFound(q) ==
    [q EXCEPT !.status = StatusNotFound, !.body = "404 page not found",
              !.writer = "router", !.pc = "done"]

\* (mutant) the 429 answer without the Retry-After header
Write429NoRetryAfter(q, retry) ==
    [q EXCEPT !.retryAfter = retry,
              !.headers = @ \cup {"Content-Type"},
              !.status = StatusTooManyRequests,
              !.statusCode = StatusTooManyRequests,
              !.body = TooManyRequestsBody,
              !.writer = "ratelimit"]

\* the 429 answer of the denial path of RateLimitMiddleware
Write429(q, retry) ==
    [q EXCEPT !.retryAfter = retry,
              !.headers = @ \cup {"Retry-After", "Content-Type"},
              !.status = StatusTooManyRequests,
              !.statusCode = StatusTooManyRequests,
              !.body = TooManyRequestsBody,
              !.writer = "ratelimit"]

\* Stage i of the chain has returned: the code that the stages around it run
\* after their next.ServeHTTP, innermost first.
RECURSIVE Return(_, _)
Return(q, i) ==
    IF i = 0 THEN [q EXCEPT !.pc = "done", !.depth = 0]
    ELSE IF Middlewares[i] = "logger" THEN Return(LoggerAfter(q), i - 1)
    ELSE Return(q, i - 1)

\* The request enters stage i of the chain.  The stages that touch nothing but
\* the request run through; the rate limiter stops at its bucket.
RECURSIVE Enter(_, _)
Enter(q, i) ==
    IF i > Len(Middlewares) THEN Return(Healthz(q), i - 1)
    ELSE IF Middlewares[i] = "logger" THEN Enter(LoggerBefore(q), i + 1)
    ELSE IF Middlewares[i] = "security" THEN Enter(SecurityHeaders(q), i + 1)
    ELSE [q EXCEPT !.pc = "ratelimit", !.depth = i, !.trace = Append(@, "ratelimit")]

\* -------------------------------------------------- the token service
StatusUnauthorized == 401
TokenTTL == 86400           \* 24 * time.Hour, in seconds
Users == 1..MaxUser
NoClaim == -1               \* the claim is not in the JSON object
jwtSecret == "server"
Keys == {"server", "other"}
HMACAlgs == {"HS256", "HS512"}          \* *jwt.SigningMethodHMAC
\* methods the library has registered; "none" stands for all that are no HMAC
RegisteredAlgs == {"HS256", "HS512", "none"}
\* "": the alg header is missing or names no registered method
Algs == RegisteredAlgs \cup {""}
Num(n) == [t |-> "num", v |-> n]        \* a JSON number, float64 in MapClaims
Str == [t |-> "str", v |-> 0]           \* a JSON string
Absent == [t |-> "absent", v |-> 0]
SubValues == {Num(u) : u \in Users} \cup {Str, Absent}
ExpValues == {NoClaim, 0}
NbfValues == {NoClaim, TokenTTL}
NoError == {}

\* HMAC over the signing string (header "." claims) of a token: an ideal MAC,
\* equal only for equal hash, key and signing string.
HashOf(alg) == IF alg = "HS512" THEN "SHA512" ELSE "SHA256"
HMAC(alg, key, tok) ==
    [hash |-> HashOf(alg), key |-> key, head |-> tok.alg,
     sub |-> tok.sub, iat |-> tok.iat, exp |-> tok.exp, nbf |-> tok.nbf]

\* The third segment: base64url of the MAC.  43 characters carry 32 bytes and
\* two spare bits (pad); b64 tells whether every character is in the alphabet.
Encode(mac) == [mac |-> mac, pad |-> 0, b64 |-> TRUE]
\* base64.RawURLEncoding.DecodeString, not Strict: the spare bits are dropped
DecodeSegment(seg) == seg.mac

\* (mutant) the signature is made over the claims of an empty token
SignedStringStale(tok, key) ==
    [tok EXCEPT !.sig = Encode(HMAC(tok.alg, key, [tok EXCEPT !.sub = Absent]))]

\* token.SignedString(key)
SignedString(tok, key) == [tok EXCEPT !.sig = Encode(HMAC(tok.alg, key, tok))]

NoToken ==
    [form |-> "absent", alg |-> "", sub |-> Absent, iat |-> 0, exp |-> NoClaim,
     nbf |-> NoClaim,
     sig |-> [mac |-> [hash |-> "", key |-> "", head |-> "", sub |-> Absent,
                       iat |-> 0, exp |-> NoClaim, nbf |-> NoClaim],
              pad |-> 0, b64 |-> TRUE]]

\* now.Unix(): whole seconds
Unix(t) == t \div SubSecond

\* (mutant) exp is stamped with the issue time
generateTokenNoTTL(userID, t) ==
    SignedString([form |-> "ok", alg |-> "HS256", sub |-> Num(userID),
                  iat |-> Unix(t), exp |-> Unix(t), nbf |-> NoClaim,
                  sig |-> NoToken.sig], jwtSecret)

\* AuthService.generateToken at time t
generateToken(userID, t) ==
    SignedString([form |-> "ok", alg |-> "HS256", sub |-> Num(userID),
                  iat |-> Unix(t), exp |-> Unix(t + TokenTTL * SubSecond),
                  nbf |-> NoClaim, sig |-> NoToken.sig], jwtSecret)

\* (mutant) the Keyfunc hands the secret out for every method
KeyfuncAnyMethod(tok) == jwtSecret

\* The Keyfunc of ValidateToken: the secret for an HMAC method, else an error.
Keyfunc(tok) == IF tok.alg \in HMACAlgs THEN jwtSecret ELSE ""

\* SigningMethodHMAC.Verify
Verify(tok, key) == DecodeSegment(tok.sig) = HMAC(tok.alg, key, tok)

\* (mutant) the signature is not compared
VerifyNothing(tok, key) == TRUE

\* (mutant) the token is still good in the instant of its exp
ValidateClaimsLate(tok, t) ==
    (IF tok.exp # NoClaim /\ ~(t <= tok.exp * SubSecond) THEN {"expired"} ELSE {})
      \cup (IF tok.nbf # NoClaim /\ t < tok.nbf * SubSecond THEN {"notvalidyet"} ELSE {})

\* jwt.Validator.Validate on the MapClaims at time t: exp and nbf, when present
\* (iat is not verified by default)
ValidateClaims(tok, t) ==
    (IF tok.exp # NoClaim /\ ~(t < tok.exp * SubSecond) THEN {"expired"} ELSE {})
      \cup (IF tok.nbf # NoClaim /\ t < tok.nbf * SubSecond THEN {"notvalidyet"} ELSE {})

\* jwt.Parse(tokenString, keyfunc) at time t: the errors errors.Is reports,
\* NoError when token.Valid.  dec: this build of the parser decodes the
\* signature segment before it looks the key up.
Parse(tok, t, dec) ==
    IF tok.form # "ok" THEN {"malformed"}
    ELSE IF tok.alg \notin RegisteredAlgs THEN {"unverifiable"}
    ELSE IF dec /\ ~tok.sig.b64 THEN {"malformed"}
    ELSE IF Keyfunc(tok) = "" THEN {"unverifiable"}
    ELSE IF ~tok.sig.b64 THEN {"malformed"}
    ELSE IF ~Verify(tok, Keyfunc(tok)) THEN {"signature"}
    ELSE IF ValidateClaims(tok, t) # {} THEN {"claims"} \cup ValidateClaims(tok, t)
    ELSE NoError

\* (mutant) the sub claim is taken whatever its type
ValidateTokenAnySub(tok, t, dec) ==
    IF Parse(tok, t, dec) # NoError
    THEN [userID |-> 0, err |-> Parse(tok, t, dec)]
    ELSE [userID |-> tok.sub.v, err |-> NoError]

\* AuthService.ValidateToken at time t
ValidateToken(tok, t, dec) ==
    IF Parse(tok, t, dec) # NoError
    THEN [userID |-> 0, err |-> Parse(tok, t, dec)]
    ELSE IF tok.sub.t # "num" THEN [userID |-> 0, err |-> {"subject"}]
    ELSE [userID |-> tok.sub.v, err |-> NoError]

NoResult == [called |-> FALSE, userID |-> 0, err |-> NoError]

\* ------------------------------------------------------- AuthMiddleware
\* The Authorization header as strings.Split(authHeader, " ") sees it: the
\* first part (scheme) and the number of parts after it (args); the second
\* part, when there is one, is the token at hand.  The empty header has an
\* empty first part and nothing after it.
Headers == {[scheme |-> "", args |-> 0],
            [scheme |-> "Bearer", args |-> 0], [scheme |-> "Bearer", args |-> 1],
            [scheme |-> "Bearer", args |-> 2], [scheme |-> "bearer", args |-> 1],
            [scheme |-> "", args |-> 1]}
NoHeader == [scheme |-> "", args |-> 0]
NoContext == [has |-> FALSE, userID |-> 0]
NoResp ==
    [done |-> FALSE, status |-> 0, body |-> "", validated |-> FALSE,
     nextCalls |-> 0, ctx |-> NoContext, handlerUserID |-> 0, handlerOK |-> FALSE,
     logs |-> <<>>]

\* GetUserIDFromContext(ctx)
GetUserIDFromContext(ctx) == <<IF ctx.has THEN ctx.userID ELSE 0, ctx.has>>

\* respondWithError(w, code, message)
respondWithError(q, code, message) ==
    [q EXCEPT !.done = TRUE, !.status = code, !.body = message]

\* next.ServeHTTP(w, r.WithContext(ctx)): the handler behind the stage reads the
\* user id from the context and answers 200
ServeNext(q, ctx) ==
    [q EXCEPT !.done = TRUE, !.status = StatusOK, !.nextCalls = @ + 1,
              !.ctx = ctx,
              !.handlerUserID = GetUserIDFromContext(ctx)[1],
              !.handlerOK = GetUserIDFromContext(ctx)[2]]

\* (mutant) a token that failed validation is forwarded as well
AuthMiddlewareForwardAll(h, tok, t, dec) ==
    IF h.scheme = "" /\ h.args = 0
    THEN respondWithError(NoResp, StatusUnauthorized, "missing authorization header")
    ELSE IF 1 + h.args # 2 \/ h.scheme # "Bearer"
    THEN respondWithError(NoResp, StatusUnauthorized, "invalid authorization header format")
    ELSE ServeNext([NoResp EXCEPT !.validated = TRUE],
                   [has |-> TRUE, userID |-> ValidateToken(tok, t, dec).userID])

\* (mutant) the body tells an expired token from an invalid one
AuthMiddlewareTellsExpired(h, tok, t, dec) ==
    IF h.scheme = "" /\ h.args = 0
    THEN respondWithError(NoResp, StatusUnauthorized, "missing authorization header")
    ELSE IF 1 + h.args # 2 \/ h.scheme # "Bearer"
    THEN respondWithError(NoResp, StatusUnauthorized, "invalid authorization header format")
    ELSE IF ValidateToken(tok, t, dec).err # NoError
    THEN respondWithError([NoResp EXCEPT !.validated = TRUE], StatusUnauthorized,
                          IF "expired" \in ValidateToken(tok, t, dec).err
                          THEN "expired token" ELSE "invalid token")
    ELSE ServeNext([NoResp EXCEPT !.validated = TRUE],
                   [has |-> TRUE, userID |-> ValidateToken(tok, t, dec).userID])

\* (mutant) the scheme is not compared
AuthMiddlewareAnyScheme(h, tok, t, dec) ==
    IF h.scheme = "" /\ h.args = 0
    THEN respondWithError(NoResp, StatusUnauthorized, "missing authorization header")
    ELSE IF 1 + h.args # 2
    THEN respondWithError(NoResp, StatusUnauthorized, "invalid authorization header format")
    ELSE IF ValidateToken(tok, t, dec).err # NoError
    THEN respondWithError([NoResp EXCEPT !.validated = TRUE], StatusUnauthorized,
                          "invalid or expired token")
    ELSE ServeNext([NoResp EXCEPT !.validated = TRUE],
                   [has |-> TRUE, userID |-> ValidateToken(tok, t, dec).userID])

\* The handler AuthMiddleware returns, on a request with header h whose second
\* part is tok, at time t.
AuthMiddleware(h, tok, t, dec) ==
    IF h.scheme = "" /\ h.args = 0
    THEN respondWithError(NoResp, StatusUnauthorized, "missing authorization header")
    ELSE IF 1 + h.args # 2 \/ h.scheme # "Bearer"
    THEN respondWithError(NoResp, StatusUnauthorized, "invalid authorization header format")
    ELSE IF ValidateToken(tok, t, dec).err # NoError
    THEN respondWithError([NoResp EXCEPT !.validated = TRUE], StatusUnauthorized,
                          "invalid or expired token")
    ELSE ServeNext([NoResp EXCEPT !.validated = TRUE],
                   [has |-> TRUE, userID |-> ValidateToken(tok, t, dec).userID])

NotIssued == [tok |-> NoToken, at |-> 0, sub |-> 0]

AuthIdle ==
    /\ clock = 0 /\ decodeFirst = FALSE
    /\ token = NoToken /\ issued = NotIssued /\ edits = 0
    /\ result = NoResult /\ authz = NoHeader /\ resp = NoResp

\* ------------------------------------------------------------- start-up
PingTimeout == 10       \* context.WithTimeout(..., 10*time.Second)
MaxRetries == 5         \* pingWithRetry(ctx, db, 5, logger)
\* requests and connections looked at once the server listens
MaxAccept == 2
\* (mutant) the same wait after every probe
BackoffConstant(i) == 1
Backoff(i) == i + 1     \* time.Second * time.Duration(i+1)

StartupIdle ==
    /\ spc = "open" /\ sclock = 0 /\ ctxDone = FALSE /\ attempt = 0
    /\ pingEnds = 0 /\ pingOK = FALSE /\ waitEnds = 0
    /\ probes = <<>> /\ waits = <<>> /\ perr = "nil"
    /\ dbOpen = "none" /\ newErr = "pending"
    /\ listening = FALSE /\ accepted = 0

\* ------------------------------------------------------------- shutdown
GracePeriod == 30       \* context.WithTimeout(..., 30*time.Second)
Conns == 1..MaxAccept
NoConn == [state |-> "none", phase |-> "", late |-> FALSE]

\* the listeners are open until srv.Shutdown closes them
ListenerOpenAlways(pc) == TRUE
ListenerOpen(pc) == pc \in {"quit", "notified"}

\* (mutant) srv.Shutdown without the ctx.Done() case
ShutdownPollNoDeadline(active, expired) == IF ~active THEN "nil" ELSE "wait"

\* one round of srv.Shutdown's loop: nil once no connection is active,
\* ctx.Err() when the context is done, else wait for the next poll
ShutdownPoll(active, expired) ==
    IF ~active THEN "nil" ELSE IF expired THEN "deadline" ELSE "wait"

\* cleanup before RateLimitMiddleware has started it
NoCleaner == [state |-> "none", sweeps |-> {}]

\* nothing opened yet
NoResources == [db |-> "none", logger |-> "none"]

\* main returns: the deferred db.Close() and then logger.Sync() run
ExitByReturn(res) == [res EXCEPT !.db = "closed", !.logger = "flushed"]

\* logger.Fatal: zap writes the entry, syncs its output, and calls os.Exit(1),
\* which runs no deferred call
ExitByFatal(res) == [res EXCEPT !.logger = "flushed"]

ShutdownIdle ==
    /\ mpc = "" /\ sig = "none" /\ grace = 0 /\ report = ""
    /\ conns = [c \in Conns |-> NoConn]
    /\ cleaner = NoCleaner
    /\ resources = NoResources

\* ---------------------------------------------------------- configuration
DefaultRPS == 10        \* getEnvAsInt("RATE_LIMIT_RPS", 10)
DefaultBurst == 20      \* getEnvAsInt("RATE_LIMIT_BURST", 20)
EnvNames == {"DB_PASSWORD", "JWT_SECRET", "SERVER_PORT", "RATE_LIMIT_RPS", "RATE_LIMIT_BURST"}
\* strings are sequences of characters
Digits == {"0", "1", "2", "3", "4", "5", "6", "7", "8", "9"}
DigitVal ==
    ("0" :> 0) @@ ("1" :> 1) @@ ("2" :> 2) @@ ("3" :> 3) @@ ("4" :> 4) @@
    ("5" :> 5) @@ ("6" :> 6) @@ ("7" :> 7) @@ ("8" :> 8) @@ ("9" :> 9)
Chars == {"7", "-", "+", "x"}
RECURSIVE StringsOf(_)
StringsOf(n) ==
    IF n = 0 THEN {<<>>}
    ELSE StringsOf(n - 1) \cup {Append(v, c) : v \in StringsOf(n - 1), c \in Chars}
DefaultPort == <<"8", "0", "8", "0">>
NoConfig == [err |-> "", port |-> <<>>, password |-> <<>>, secret |-> <<>>,
             rps |-> 0, burst |-> 0]

\* os.Getenv(key) != "" ? value : defaultValue
getEnv(e, key, defaultValue) == IF e[key] # <<>> THEN e[key] ELSE defaultValue

RECURSIVE DecimalValue(_)
DecimalValue(b) ==
    IF b = <<>> THEN 0
    ELSE 10 * DecimalValue(SubSeq(b, 1, Len(b) - 1)) + DigitVal[b[Len(b)]]

\* strconv.Atoi(s): an optional sign and then decimal digits, at least one
Atoi(s) ==
    LET signed == s # <<>> /\ s[1] \in {"+", "-"}
        b == IF signed THEN Tail(s) ELSE s
    IN IF b = <<>> \/ \E i \in DOMAIN b : b[i] \notin Digits
       THEN [ok |-> FALSE, v |-> 0]
       ELSE [ok |-> TRUE,
             v |-> IF signed /\ s[1] = "-" THEN 0 - DecimalValue(b) ELSE DecimalValue(b)]

\* getEnvAsInt(key, defaultValue)
getEnvAsInt(e, key, defaultValue) ==
    IF e[key] # <<>> /\ Atoi(e[key]).ok THEN Atoi(e[key]).v ELSE defaultValue

\* (mutant) Validate without the JWT_SECRET check
ConfigValidateNoSecret(c) ==
    IF c.password = <<>> THEN "DB_PASSWORD is required"
    ELSE IF c.port = <<>> THEN "SERVER_PORT is required"
    ELSE ""

\* (c *Config) Validate(): the message of its error, "" for nil
ConfigValidate(c) ==
    IF c.password = <<>> THEN "DB_PASSWORD is required"
    ELSE IF c.secret = <<>> THEN "JWT_SECRET is required"
    ELSE IF c.port = <<>> THEN "SERVER_PORT is required"
    ELSE ""

\* config.Load(): the configuration, or nil and the error of Validate
Load(e) ==
    LET c == [err |-> "",
              port |-> getEnv(e, "SERVER_PORT", DefaultPort),
              password |-> getEnv(e, "DB_PASSWORD", <<>>),
              secret |-> getEnv(e, "JWT_SECRET", <<>>),
              rps |-> getEnvAsInt(e, "RATE_LIMIT_RPS", DefaultRPS),
              burst |-> getEnvAsInt(e, "RATE_LIMIT_BURST", DefaultBurst)]
    IN IF ConfigValidate(c) # "" THEN [NoConfig EXCEPT !.err = ConfigValidate(c)] ELSE c

ConfigIdle ==
    /\ env = [n \in EnvNames |-> <<>>]
    /\ cfg = NoConfig
    /\ boot = <<>>

\* ------------------------------------------------- register and login
StatusCreated == 201
StatusBadRequest == 400
StatusConflict == 409
StatusInternalServerError == 500
MinPassword == 6        \* validate:"required,min=6"
BcryptMaxBytes == 72    \* the bytes of a password bcrypt reads
\* two handlers run at a time
Handlers == {1, 2}

\* a password: its first 72 bytes and its length
Passwords ==
    {[head |-> "abc", len |-> 3], [head |-> "secret1", len |-> 7],
     [head |-> "seventy-two bytes", len |-> BcryptMaxBytes],
     [head |-> "seventy-two bytes", len |-> BcryptMaxBytes + 1]}
Emails == {"a@x.io", "a.x.io"}
\* validate:"email"
IsEmail(e) == e = "a@x.io"
\* a request body: garbage, a JSON object, or a JSON object with bytes after it
Bodies ==
    {[form |-> "garbage", email |-> "", password |-> [head |-> "", len |-> 0]]}
    \cup {[form |-> f, email |-> e, password |-> pw] :
             f \in {"json", "trailing"}, e \in {"a@x.io"}, pw \in Passwords}
    \cup {[form |-> f, email |-> "a.x.io", password |-> [head |-> "secret1", len |-> 7]] :
             f \in {"json", "trailing"}}
DriverErrors == {"connection refused", "deadlock detected"}
PqDuplicate == "pq: duplicate key value violates unique constraint \"users_email_key\""
PgxDuplicate == "ERROR: duplicate key value violates unique constraint \"users_email_key\" (SQLSTATE 23505)"

NoAReq ==
    [pc |-> "idle", kind |-> "", body |-> [form |-> "", email |-> "",
                                          password |-> [head |-> "", len |-> 0]],
     ctx |-> "live", known |-> FALSE, existed |-> FALSE, found |-> 0, hash |-> "",
     status |-> 0, error |-> "", message |-> <<>>, token |-> NoToken, userID |-> 0,
     stored |-> FALSE, calls |-> 0, late |-> {}, logs |-> <<>>]

\* json.NewDecoder(r.Body).Decode(&req): the first JSON value of the body; what
\* follows it is not read
Decode(body) ==
    IF body.form = "garbage"
    THEN [err |-> <<"invalid character">>, email |-> "", password |-> [head |-> "", len |-> 0]]
    ELSE [err |-> <<>>, email |-> body.email, password |-> body.password]

\* h.validate.Struct(req): required,email and required,min=6
ValidateStruct(rq) ==
    IF ~IsEmail(rq.email) THEN <<"Field validation for 'Email' failed on the 'email' tag">>
    ELSE IF rq.password.len < MinPassword
    THEN <<"Field validation for 'Password' failed on the 'min' tag">>
    ELSE <<>>

\* fmt.Errorf(prefix + ": %w", err).Error()
Wrap(prefix, e) == <<prefix>> \o e

\* bcrypt.GenerateFromPassword: the digest depends on the first 72 bytes; a
\* longer password is an error in some releases of the library and is cut
\* in the others
GenerateFromPassword(pw, strict) ==
    IF strict /\ pw.len > BcryptMaxBytes
    THEN [err |-> <<"bcrypt: password length exceeds 72 bytes">>, hash |-> ""]
    ELSE [err |-> <<>>, hash |-> pw.head]

\* bcrypt.CompareHashAndPassword(hash, password) = nil
CompareHashAndPassword(hash, pw) == hash = pw.head

\* SELECT ... WHERE email = $1: the id of the row, 0 for sql.ErrNoRows.  (A row
\* also remembers the password it was registered with, which the table does
\* not hold and no action reads.)
Find(e) ==
    IF \E i \in DOMAIN users : users[i].email = e
    THEN CHOOSE i \in DOMAIN users : users[i].email = e
    ELSE 0

\* the handlers' respondWithError(w, r, code, message, err): the record it logs
\* and the body it sends
handlerRespondWithError(q, code, message, err) ==
    [q EXCEPT !.pc = "done", !.status = code, !.error = message, !.message = err,
              !.logs = Append(@, [level |-> "error", msg |-> message, err |-> err,
                                  status |-> code])]

\* respondWithJSON(w, code, AuthResponse{Token, User})
respondWithJSON(q, code, tok, id) ==
    [q EXCEPT !.pc = "done", !.status = code, !.token = tok, !.userID = id]

\* what a storage call returns besides its rows: nil, an error of the driver,
\* or the error of the context when that is done before the query is sent
StorageErrors(q) ==
    IF q.ctx = "canceled" THEN {"context canceled"} ELSE {"nil"} \cup DriverErrors

\* the call reached the database
Reached(q) == IF q.ctx = "canceled" THEN 0 ELSE 1

AccountsIdle ==
    /\ users = <<>>
    /\ served = 0
    /\ areq = [r \in Handlers |-> NoAReq]

\* no bucket under test, no denied request, no transaction
NoLimiter == [key |-> "", born |-> 0, tokens |-> 0, last |-> 0, lastEvent |-> 0]
NoDenied == [pc |-> "idle", res |-> NoReservation]
NoTx == [pc |-> "idle", ctx |-> "live", begin |-> "", fn |-> "", rollback |-> "",
         commit |-> "", calls |-> 0, commits |-> 0, rollbacks |-> 0, ended |-> <<>>,
         ret |-> <<>>, panic |-> "", logs |-> <<>>]

BucketIdle ==
    /\ bucket = NoLimiter /\ twin = NoLimiter /\ denied = <<>>

TxIdle == tx = NoTx

ExtraIdle == BucketIdle /\ TxIdle

RestIdle == ShutdownIdle /\ ConfigIdle /\ AccountsIdle /\ ExtraIdle

\* ------------------------------------------------------------------ Init
LimiterInit ==
    /\ now = 0
    /\ burst \in 0..MaxBurst
    /\ limiters = [a \in Addrs |-> NoBucket]
    /\ buckets = <<>>
    /\ req = [r \in Requests |-> NewRequest]

IPIdle ==
    /\ xff = "" /\ xri = "" /\ remoteAddr = "" /\ clientIP = "" /\ ipDone = FALSE

Init == LimiterInit /\ IPIdle /\ AuthIdle /\ StartupIdle /\ RestIdle

\* --------------------------------------------------------------- actions
\* time passes
Tick ==
    /\ now < MaxTime
    /\ now' = now + 1
    /\ UNCHANGED <<burst, limiters, buckets, req>>

\* (mutant) a cleanup that drops the entries one address at a time
EvictOne(m) ==
    LET a == CHOOSE x \in DOMAIN m : m[x] # NoBucket
    IN  [m EXCEPT ![a] = NoBucket]

\* RateLimiter.cleanup, one ticker event: the map is replaced by an empty one
\* (the rate.Limiter objects requests still point to stay alive).
Evict(m) == [a \in DOMAIN m |-> NoBucket]

cleanup ==
    /\ \E a \in Addrs : limiters[a] # NoBucket
    /\ limiters' = Evict(limiters)
    /\ UNCHANGED <<now, burst, buckets, req>>

\* (mutant) a getLimiter that hands the first bucket to every address
getLimiterShared(ip) ==
    IF Len(buckets) > 0
    THEN <<1, [limiters EXCEPT ![ip] = 1], buckets>>
    ELSE <<1, [limiters EXCEPT ![ip] = 1], <<NewLimiter(ip)>>>>

\* RateLimiter.getLimiter(ip), under rl.mu: <<bucket of ip, map after, heap after>>
getLimiter(ip) ==
    IF limiters[ip] # NoBucket
    THEN <<limiters[ip], limiters, buckets>>
    ELSE <<Len(buckets) + 1,
           [limiters EXCEPT ![ip] = Len(buckets) + 1],
           Append(buckets, NewLimiter(ip))>>

\* A request reaches the server.  mux.Router.ServeHTTP runs the middleware
\* chain only when a route matches; otherwise the NotFoundHandler answers.
\* The chain runs up to the rate limiter's getLimiter(getClientIP(r)).
Serve(r) ==
    /\ req[r].pc = "new"
    /\ \A q \in Requests : q < r => req[q].pc # "new"
    /\ \E target \in Targets, fwd \in HeaderValues, real \in HeaderValues, remote \in Addrs :
         LET q0 == [req[r] EXCEPT !.target = target]
             q1 == IF RouteMatch(target)
                   THEN Enter([q0 EXCEPT !.ip = getClientIP(fwd, real, remote)], 1)
                   ELSE NotFound(q0)
         IN  IF q1.pc = "ratelimit"
             THEN LET got == getLimiter(q1.ip) IN
                  /\ got[1] <= MaxBuckets
                  /\ limiters' = got[2]
                  /\ buckets' = got[3]
                  /\ req' = [req EXCEPT ![r] = [q1 EXCEPT !.lim = got[1], !.pc = "allow"]]
             ELSE /\ req' = [req EXCEPT ![r] = q1]
                  /\ UNCHANGED <<limiters, buckets>>
    /\ UNCHANGED <<now, burst>>

\* (mutant) Allow() whose token count update is lost
AllowLostUpdate(r) ==
    /\ req[r].pc = "allow"
    /\ LET out == reserveN(buckets[req[r].lim], now, 0) IN
         IF out[1].ok
         THEN req' = [req EXCEPT ![r] =
                        Enter([@ EXCEPT !.decision = "admit", !.nextCalls = @ + 1],
                              req[r].depth + 1)]
         ELSE req' = [req EXCEPT ![r].decision = "deny", ![r].pc = "reserve"]
    /\ UNCHANGED <<now, burst, limiters, buckets>>

\* ipLimiter.Allow(): an admitted request goes on to next.ServeHTTP, the rest
\* of the chain and the handler.
Allow(r) ==
    /\ req[r].pc = "allow"
    /\ LET out == reserveN(buckets[req[r].lim], now, 0) IN
         /\ buckets' = [buckets EXCEPT ![req[r].lim] = out[2]]
         /\ IF out[1].ok
            THEN req' = [req EXCEPT ![r] =
                           Enter([@ EXCEPT !.decision = "admit", !.nextCalls = @ + 1],
                                 req[r].depth + 1)]
            ELSE req' = [req EXCEPT ![r].decision = "deny", ![r].pc = "reserve"]
    /\ UNCHANGED <<now, burst, limiters>>

\* ipLimiter.Reserve(); when the reservation is not OK: Cancel() (a no-op),
\* Retry-After: 60 and the 429 answer.
Reserve(r) ==
    /\ req[r].pc = "reserve"
    /\ LET out == reserveN(buckets[req[r].lim], now, -1) IN
         /\ buckets' = [buckets EXCEPT ![req[r].lim] = out[2]]
         /\ req' = [req EXCEPT ![r] =
                      IF out[1].ok
                      THEN [@ EXCEPT !.res = out[1], !.pc = "delay"]
                      ELSE Return(Write429(@, [kind |-> "fallback",
                                               value |-> RetryAfterFallback]),
                                  req[r].depth - 1)]
    /\ UNCHANGED <<now, burst, limiters>>

\* reservation.Delay()
Delay(r) ==
    /\ req[r].pc = "delay"
    /\ req' = [req EXCEPT ![r].retryAfter = [kind |-> "delay",
                                             value |-> DelayFrom(req[r].res, now)],
                          ![r].pc = "cancel"]
    /\ UNCHANGED <<now, burst, limiters, buckets>>

\* reservation.Cancel(), then Retry-After: delay.String() and the 429 answer.
Cancel(r) ==
    /\ req[r].pc = "cancel"
    /\ buckets' = [buckets EXCEPT ![req[r].lim] = CancelAt(req[r].res, @, now)]
    /\ req' = [req EXCEPT ![r] = Return(Write429([@ EXCEPT !.res = NoReservation],
                                                 @.retryAfter),
                                        req[r].depth - 1)]
    /\ UNCHANGED <<now, burst, limiters>>

Next ==
    \/ Tick /\ UNCHANGED exceptLimiter
    \/ cleanup /\ UNCHANGED exceptLimiter
    \/ \E r \in Requests : Serve(r) /\ UNCHANGED exceptLimiter
    \/ \E r \in Requests : Allow(r) /\ UNCHANGED exceptLimiter
    \/ \E r \in Requests : Reserve(r) /\ UNCHANGED exceptLimiter
    \/ \E r \in Requests : Delay(r) /\ UNCHANGED exceptLimiter
    \/ \E r \in Requests : Cancel(r) /\ UNCHANGED exceptLimiter

Spec == Init /\ [][Next]_vars

\* ------------------------------------------- getClientIP on its own inputs
LimiterIdle ==
    /\ now = 0 /\ burst = 0
    /\ limiters = [a \in Addrs |-> NoBucket]
    /\ buckets = <<>>
    /\ req = [r \in Requests |-> NewRequest]

ClientIPInit ==
    /\ xff \in XffValues
    /\ xri \in XriValues
    /\ remoteAddr \in RemoteValues
    /\ clientIP = ""
    /\ ipDone = FALSE
    /\ LimiterIdle /\ AuthIdle /\ StartupIdle /\ RestIdle

ResolveClientIP ==
    /\ ~ipDone
    /\ clientIP' = getClientIP(xff, xri, remoteAddr)
    /\ ipDone' = TRUE
    /\ UNCHANGED <<xff, xri, remoteAddr>>
    /\ UNCHANGED exceptIP

ClientIPNext == ResolveClientIP

SpecClientIP == ClientIPInit /\ [][ClientIPNext]_vars

\* ------------------------------------- the token service and AuthMiddleware
\* The instants the clock visits: around the issue of a token and around its
\* expiry a day later.
Instants ==
    (0 .. SubSecond - 1)
      \cup {TokenTTL * SubSecond - 1, TokenTTL * SubSecond, TokenTTL * SubSecond + 1}

AuthInit ==
    /\ clock \in 0 .. SubSecond - 1
    /\ decodeFirst \in BOOLEAN
    /\ token = NoToken /\ issued = NotIssued /\ edits = 0
    /\ result = NoResult /\ authz = NoHeader /\ resp = NoResp
    /\ LimiterIdle /\ IPIdle /\ StartupIdle /\ RestIdle

Forget == result' = NoResult /\ authz' = NoHeader /\ resp' = NoResp

\* time passes
AdvanceClock ==
    /\ \E t \in Instants : t > clock /\ clock' = t
    /\ Forget
    /\ UNCHANGED <<decodeFirst, token, issued, edits>>

\* Register or Login succeeded for user u: s.generateToken(user.ID).  One token
\* is issued, within the first second.
IssueToken(u) ==
    /\ issued = NotIssued /\ clock < SubSecond
    /\ token' = generateToken(u, clock)
    /\ issued' = [tok |-> token', at |-> clock, sub |-> u]
    /\ edits' = 0
    /\ Forget
    /\ UNCHANGED <<clock, decodeFirst>>

\* the token at hand is replaced by tok (all changes are made before the clock
\* leaves the first second: they do not depend on the time)
Edit(tok) ==
    /\ token.form = "ok" /\ edits < MaxEdits /\ tok # token /\ clock < SubSecond
    /\ token' = tok
    /\ edits' = edits + 1
    /\ Forget
    /\ UNCHANGED <<clock, decodeFirst, issued>>

\* a claim is changed, the signature segment is kept
TamperClaim ==
    \/ \E v \in SubValues : Edit([token EXCEPT !.sub = v])
    \/ Edit([token EXCEPT !.iat = TokenTTL])
    \/ \E v \in ExpValues : Edit([token EXCEPT !.exp = v])
    \/ \E v \in NbfValues : Edit([token EXCEPT !.nbf = v])

\* the alg of the header is changed, the signature segment is kept
TamperHeader == \E a \in Algs : Edit([token EXCEPT !.alg = a])

\* the signature segment is changed: other bytes, only the two spare bits of
\* its last character, or a character outside the base64url alphabet
TamperSignature ==
    \/ Edit([token EXCEPT !.sig.mac.key = "altered"])
    \/ Edit([token EXCEPT !.sig.pad = 1 - @])
    \/ Edit([token EXCEPT !.sig.b64 = FALSE])

\* the string no longer has three decodable segments
Truncate == Edit([token EXCEPT !.form = "malformed"])

\* the holder of key k signs the token as it stands anew (for a method that is
\* no HMAC, with HMAC-SHA256)
Craft(k) == Edit(SignedString(token, k))

\* authService.ValidateToken(token) is called
Validate ==
    /\ ~result.called
    /\ result' = [called |-> TRUE,
                  userID |-> ValidateToken(token, clock, decodeFirst).userID,
                  err |-> ValidateToken(token, clock, decodeFirst).err]
    /\ authz' = NoHeader /\ resp' = NoResp
    /\ UNCHANGED <<clock, decodeFirst, token, issued, edits>>

\* a request with Authorization header h reaches a route behind AuthMiddleware
ServeProtected(h) ==
    /\ ~resp.done
    /\ authz' = h
    /\ resp' = AuthMiddleware(h, token, clock, decodeFirst)
    /\ result' = NoResult
    /\ UNCHANGED <<clock, decodeFirst, token, issued, edits>>

AuthNext ==
    \/ AdvanceClock /\ UNCHANGED exceptAuth
    \/ \E u \in Users : IssueToken(u) /\ UNCHANGED exceptAuth
    \/ TamperClaim /\ UNCHANGED exceptAuth
    \/ TamperHeader /\ UNCHANGED exceptAuth
    \/ TamperSignature /\ UNCHANGED exceptAuth
    \/ Truncate /\ UNCHANGED exceptAuth
    \/ \E k \in Keys : Craft(k) /\ UNCHANGED exceptAuth
    \/ Validate /\ UNCHANGED exceptAuth
    \/ \E h \in Headers : ServeProtected(h) /\ UNCHANGED exceptAuth

SpecAuth == AuthInit /\ [][AuthNext]_vars

\* ---------------------------------------------------------------- start-up
\* (mutant) database.New does not look at the error of pingWithRetry
NewOutcomeIgnoreErr(err) == "db"

\* database.New after pingWithRetry returned err: the handle, or an error
NewOutcome(err) == IF err # "nil" THEN "error" ELSE "db"

\* (mutant) pingWithRetry backs off after a successful probe as well
AfterPingKeepGoing(ok) == "select"

\* pingWithRetry after PingContext: return nil, or log and back off
AfterPing(ok) == IF ok THEN "return" ELSE "select"

StartupInit ==
    /\ StartupIdle
    /\ LimiterIdle /\ IPIdle /\ AuthIdle /\ RestIdle

\* pingWithRetry returned err to database.New: on an error New closes the handle
\* and returns it, and main ends in logger.Fatal; else New returns the DB and
\* main goes on to build the router.
PingReturns(err) ==
    IF NewOutcome(err) = "error"
    THEN dbOpen' = "closed" /\ newErr' = "ping" /\ spc' = "fatal"
    ELSE dbOpen' = dbOpen /\ newErr' = "nil" /\ spc' = "established"

\* sql.Open and the pool settings; main ends in logger.Fatal when Open fails
OpenDB ==
    /\ spc = "open"
    /\ \E ok \in BOOLEAN :
         IF ok THEN dbOpen' = "open" /\ newErr' = newErr /\ spc' = "ping"
               ELSE dbOpen' = dbOpen /\ newErr' = "open" /\ spc' = "fatal"
    /\ UNCHANGED <<sclock, ctxDone, attempt, pingEnds, pingOK, waitEnds, probes,
                   waits, perr, listening, accepted>>

\* db.PingContext(ctx) is called: on a context that is done it fails at once,
\* else it ends by itself after d seconds, well or not
PingStart ==
    /\ spc = "ping"
    /\ IF ctxDone
       THEN /\ probes' = Append(probes, [start |-> sclock, end |-> sclock, ok |-> FALSE])
            /\ perr' = "ctx"
            /\ spc' = "select"
            /\ waitEnds' = sclock + Backoff(attempt)
            /\ UNCHANGED <<pingEnds, pingOK>>
       ELSE /\ \E d \in 0..MaxPing, ok \in BOOLEAN :
                 pingEnds' = sclock + d /\ pingOK' = ok
            /\ probes' = Append(probes, [start |-> sclock, end |-> -1, ok |-> FALSE])
            /\ spc' = "pinging"
            /\ UNCHANGED <<perr, waitEnds>>
    /\ UNCHANGED <<sclock, ctxDone, attempt, waits, dbOpen, newErr, listening, accepted>>

\* db.PingContext(ctx) returns: its own outcome once it has ended, the context's
\* error once the context is done
PingReturn ==
    /\ spc = "pinging"
    /\ \E ok \in BOOLEAN, e \in {"nil", "ping", "ctx"} :
         /\ \/ pingEnds <= sclock /\ ok = pingOK /\ e = (IF ok THEN "nil" ELSE "ping")
            \/ ctxDone /\ ~ok /\ e = "ctx"
         /\ probes' = [probes EXCEPT ![Len(probes)] = [@ EXCEPT !.end = sclock, !.ok = ok]]
         /\ perr' = e
         /\ IF AfterPing(ok) = "return"
            THEN PingReturns(e) /\ waitEnds' = waitEnds
            ELSE /\ spc' = "select"
                 /\ waitEnds' = sclock + Backoff(attempt)
                 /\ UNCHANGED <<dbOpen, newErr>>
    /\ UNCHANGED <<sclock, ctxDone, attempt, pingEnds, pingOK, waits, listening, accepted>>

\* select: case <-ctx.Done(): return ctx.Err()
SelectCtx ==
    /\ spc = "select" /\ ctxDone
    /\ waits' = Append(waits, [from |-> waitEnds - Backoff(attempt), to |-> sclock,
                               by |-> "ctx"])
    /\ perr' = "ctx"
    /\ PingReturns("ctx")
    /\ UNCHANGED <<sclock, ctxDone, attempt, pingEnds, pingOK, waitEnds, probes,
                   listening, accepted>>

\* select: case <-time.After(...): continue; i++, and return err after the last
SelectTimer ==
    /\ spc = "select" /\ waitEnds <= sclock
    /\ waits' = Append(waits, [from |-> waitEnds - Backoff(attempt), to |-> sclock,
                               by |-> "timer"])
    /\ attempt' = attempt + 1
    /\ IF attempt + 1 < MaxRetries
       THEN spc' = "ping" /\ UNCHANGED <<dbOpen, newErr>>
       ELSE PingReturns(perr)
    /\ UNCHANGED <<sclock, ctxDone, pingEnds, pingOK, waitEnds, probes, perr,
                   listening, accepted>>

\* the 10 s of the context are over
CtxExpire ==
    /\ spc \in {"ping", "pinging", "select"}
    /\ ~ctxDone /\ sclock >= PingTimeout
    /\ ctxDone' = TRUE
    /\ UNCHANGED <<spc, sclock, attempt, pingEnds, pingOK, waitEnds, probes, waits,
                   perr, dbOpen, newErr, listening, accepted>>

\* a second passes while pingWithRetry is blocked and nothing is due
StartTick ==
    /\ spc \in {"pinging", "select"}
    /\ ~ctxDone /\ sclock < PingTimeout
    /\ ~(spc = "pinging" /\ pingEnds <= sclock)
    /\ ~(spc = "select" /\ waitEnds <= sclock)
    /\ sclock' = sclock + 1
    /\ UNCHANGED <<spc, ctxDone, attempt, pingEnds, pingOK, waitEnds, probes, waits,
                   perr, dbOpen, newErr, listening, accepted>>

\* main builds the router and starts srv.ListenAndServe, which listens or
\* fails (logger.Fatal)
Listen ==
    /\ spc = "established"
    /\ \E ok \in BOOLEAN :
         IF ok THEN listening' = TRUE /\ spc' = "listening"
               ELSE listening' = FALSE /\ spc' = "fatal"
    /\ UNCHANGED <<sclock, ctxDone, attempt, pingEnds, pingOK, waitEnds, probes,
                   waits, perr, dbOpen, newErr, accepted>>

\* the listening server accepts a request
Accept ==
    /\ listening /\ accepted < MaxAccept
    /\ accepted' = accepted + 1
    /\ UNCHANGED <<spc, sclock, ctxDone, attempt, pingEnds, pingOK, waitEnds, probes,
                   waits, perr, dbOpen, newErr, listening>>

StartupNext ==
    \/ OpenDB /\ UNCHANGED exceptStartup
    \/ PingStart /\ UNCHANGED exceptStartup
    \/ PingReturn /\ UNCHANGED exceptStartup
    \/ SelectCtx /\ UNCHANGED exceptStartup
    \/ SelectTimer /\ UNCHANGED exceptStartup
    \/ CtxExpire /\ UNCHANGED exceptStartup
    \/ StartTick /\ UNCHANGED exceptStartup
    \/ Listen /\ UNCHANGED exceptStartup
    \/ Accept /\ UNCHANGED exceptStartup

SpecStartup == StartupInit /\ [][StartupNext]_vars

\* ----------------------------------------------------------------- shutdown
\* main blocked in <-quit, the server listening
ShutdownInit ==
    /\ mpc = "quit" /\ sig = "none" /\ grace = 0 /\ report = ""
    /\ conns = [c \in Conns |-> NoConn]
    /\ cleaner = [NoCleaner EXCEPT !.state = "running"]
    /\ resources = [db |-> "open", logger |-> "buffered"]
    /\ LimiterIdle /\ IPIdle /\ AuthIdle /\ StartupIdle /\ ConfigIdle /\ AccountsIdle
    /\ ExtraIdle

Active == {c \in Conns : conns[c].state = "active"}
FreeConns == {c \in Conns : conns[c].state = "none"}

\* where the shutdown is when a connection is accepted
Phase ==
    IF mpc = "quit" THEN (IF sig = "none" THEN "serving" ELSE "signalled")
    ELSE mpc

\* the server accepts a connection and starts on its request
Connect ==
    /\ ListenerOpen(mpc) /\ mpc # "exited"
    /\ FreeConns # {}
    /\ LET c == CHOOSE x \in FreeConns : \A y \in FreeConns : x <= y
       IN conns' = [conns EXCEPT ![c] = [state |-> "active", phase |-> Phase,
                                         late |-> FALSE]]
    /\ UNCHANGED <<mpc, sig, grace, report, cleaner, resources>>

\* a request completes: its response is written and the connection goes idle
Finish(c) ==
    /\ mpc # "exited"
    /\ conns[c].state = "active"
    /\ conns' = [conns EXCEPT ![c].state = "done",
                              ![c].late = (mpc = "draining" /\ grace = GracePeriod)]
    /\ UNCHANGED <<mpc, sig, grace, report, cleaner, resources>>

\* SIGINT or SIGTERM is delivered: signal.Notify puts it into quit
Signal ==
    /\ mpc = "quit" /\ sig = "none"
    /\ sig' = "pending"
    /\ UNCHANGED <<mpc, grace, conns, report, cleaner, resources>>

\* <-quit returns and main logs "shutting down server..."
ReceiveSignal ==
    /\ mpc = "quit" /\ sig = "pending"
    /\ mpc' = "notified" /\ sig' = "taken"
    /\ report' = "shutting down server..."
    /\ UNCHANGED <<grace, conns, cleaner, resources>>

\* context.WithTimeout and the call of srv.Shutdown, which closes the listeners
BeginShutdown ==
    /\ mpc = "notified"
    /\ mpc' = "draining" /\ grace' = 0
    /\ UNCHANGED <<sig, conns, report, cleaner, resources>>

\* srv.Shutdown finds no active connection and returns nil; main returns
ShutdownReturns ==
    /\ mpc = "draining"
    /\ ShutdownPoll(Active # {}, grace >= GracePeriod) = "nil"
    /\ mpc' = "exited"
    /\ report' = "server stopped gracefully"
    /\ cleaner' = [cleaner EXCEPT !.state = "gone"]
    /\ resources' = ExitByReturn(resources)
    /\ UNCHANGED <<sig, grace, conns>>

\* the poll before the deadline saw a connection that was active then
SeenActive == Active # {} \/ \E c \in Conns : conns[c].late

\* srv.Shutdown returns ctx.Err(): logger.Fatal("server forced to shutdown")
\* exits the process, and the connections still open die with it
ShutdownTimeout ==
    /\ mpc = "draining"
    /\ ShutdownPoll(SeenActive, grace >= GracePeriod) = "deadline"
    /\ mpc' = "exited"
    /\ report' = "server forced to shutdown"
    /\ conns' = [c \in Conns |->
                   IF conns[c].state = "active"
                   THEN [conns[c] EXCEPT !.state = "killed"] ELSE conns[c]]
    /\ cleaner' = [cleaner EXCEPT !.state = "gone"]
    /\ resources' = ExitByFatal(resources)
    /\ UNCHANGED <<sig, grace>>

\* a second passes while srv.Shutdown waits for the next poll
ShutTick ==
    /\ mpc = "draining"
    /\ ShutdownPoll(Active # {}, grace >= GracePeriod) = "wait"
    /\ grace < GracePeriod
    /\ grace' = grace + 1
    /\ UNCHANGED <<mpc, sig, conns, report, cleaner, resources>>

\* the ticker of cleanup fires and the goroutine replaces the map; nothing
\* but the end of the process ends its loop
CleanupTick ==
    /\ mpc # "exited"
    /\ cleaner.state = "running"
    /\ cleaner' = [cleaner EXCEPT !.sweeps = @ \cup {Phase}]
    /\ UNCHANGED <<mpc, sig, grace, conns, report, resources>>

\* srv.ListenAndServe fails in its goroutine while main waits in <-quit:
\* logger.Fatal("failed to start server")
ListenFails ==
    /\ mpc = "quit"
    /\ \A c \in Conns : conns[c].state = "none"
    /\ mpc' = "exited"
    /\ report' = "failed to start server"
    /\ cleaner' = [cleaner EXCEPT !.state = "gone"]
    /\ resources' = ExitByFatal(resources)
    /\ UNCHANGED <<sig, grace, conns>>

ShutdownNext ==
    \/ Connect /\ UNCHANGED exceptShutdown
    \/ (\E c \in Conns : Finish(c)) /\ UNCHANGED exceptShutdown
    \/ Signal /\ UNCHANGED exceptShutdown
    \/ ReceiveSignal /\ UNCHANGED exceptShutdown
    \/ BeginShutdown /\ UNCHANGED exceptShutdown
    \/ ShutdownReturns /\ UNCHANGED exceptShutdown
    \/ ShutdownTimeout /\ UNCHANGED exceptShutdown
    \/ ShutTick /\ UNCHANGED exceptShutdown
    \/ CleanupTick /\ UNCHANGED exceptShutdown
    \/ ListenFails /\ UNCHANGED exceptShutdown

SpecShutdown == ShutdownInit /\ [][ShutdownNext]_vars

\* main's own steps and the clock are scheduled; no request has to finish
SpecShutdownFair ==
    /\ SpecShutdown
    /\ WF_vars(ReceiveSignal /\ UNCHANGED exceptShutdown)
    /\ WF_vars(BeginShutdown /\ UNCHANGED exceptShutdown)
    /\ WF_vars(ShutdownReturns /\ UNCHANGED exceptShutdown)
    /\ WF_vars(ShutdownTimeout /\ UNCHANGED exceptShutdown)
    /\ WF_vars(ShutTick /\ UNCHANGED exceptShutdown)


\* ------------------------------------------------------------ configuration
\* the environment of the process, after godotenv.Load has added the .env file
ConfigInit ==
    /\ \E password, secret, port \in {<<>>, <<"x">>} :
       \E rpsValue, burstValue \in StringsOf(MaxValueLen) :
          env = [n \in EnvNames |->
                   CASE n = "DB_PASSWORD" -> password
                     [] n = "JWT_SECRET" -> secret
                     [] n = "SERVER_PORT" -> port
                     [] n = "RATE_LIMIT_RPS" -> rpsValue
                     [] n = "RATE_LIMIT_BURST" -> burstValue]
    /\ cfg = NoConfig
    /\ boot = <<>>
    /\ LimiterIdle /\ IPIdle /\ AuthIdle /\ StartupIdle /\ ShutdownIdle /\ AccountsIdle
    /\ ExtraIdle

Last(q) == IF q = <<>> THEN "" ELSE q[Len(q)]

\* cfg, err := config.Load(); on an error main prints it and calls os.Exit(1)
LoadConfig ==
    /\ boot = <<>>
    /\ cfg' = Load(env)
    /\ boot' = IF Load(env).err # "" THEN <<"exit">> ELSE <<"config">>
    /\ UNCHANGED env

\* one step of main's initialisation, which succeeds or ends the process
BootStep(from, to, failed) ==
    /\ Last(boot) = from
    /\ \E ok \in BOOLEAN : boot' = Append(boot, IF ok THEN to ELSE failed)
    /\ UNCHANGED <<env, cfg>>

\* logger.Init(cfg.Logger.Level, cfg.IsProduction())
InitLogger == BootStep("config", "logger", "exit")
\* database.New(...), logger.Fatal on its error
NewDatabase == BootStep("logger", "database", "fatal")
\* services.NewAuthService(userRepo, cfg.JWT.Secret)
NewAuthService ==
    /\ Last(boot) = "database"
    /\ boot' = Append(boot, "auth")
    /\ UNCHANGED <<env, cfg>>
\* srv.ListenAndServe(), logger.Fatal on its error
ListenAndServe == BootStep("auth", "listen", "fatal")

ConfigNext ==
    \/ LoadConfig /\ UNCHANGED exceptConfig
    \/ InitLogger /\ UNCHANGED exceptConfig
    \/ NewDatabase /\ UNCHANGED exceptConfig
    \/ NewAuthService /\ UNCHANGED exceptConfig
    \/ ListenAndServe /\ UNCHANGED exceptConfig

SpecConfig == ConfigInit /\ [][ConfigNext]_vars

\* ------------------------------------------------------ register and login
AccountsInit ==
    /\ AccountsIdle
    /\ LimiterIdle /\ IPIdle /\ AuthIdle /\ StartupIdle /\ ShutdownIdle /\ ConfigIdle
    /\ ExtraIdle

Idle == {r \in Handlers : areq[r].pc = "idle"}

\* AuthHandler.Register / AuthHandler.Login up to the call of the service:
\* decode the body, validate the request
Start(kind, body) ==
    /\ served < MaxAReq
    /\ Idle # {}
    /\ LET r == CHOOSE x \in Idle : \A y \in Idle : x <= y
           q == [NoAReq EXCEPT !.kind = kind, !.body = body,
                               !.known = Find(body.email) # 0]
           rq == Decode(body)
       IN areq' = [areq EXCEPT ![r] =
             IF rq.err # <<>>
             THEN handlerRespondWithError(q, StatusBadRequest, "invalid request body", rq.err)
             ELSE IF ValidateStruct(rq) # <<>>
             THEN handlerRespondWithError(q, StatusBadRequest, "validation failed",
                                          ValidateStruct(rq))
             ELSE [q EXCEPT !.pc = "lookup"]]
    /\ served' = served + 1
    /\ UNCHANGED users

\* s.userRepo.GetByEmail(ctx, req.Email) and what Register or Login does with
\* its result
GetByEmail(r) ==
    /\ areq[r].pc = "lookup"
    /\ \E e \in StorageErrors(areq[r]) :
         LET q == [areq[r] EXCEPT !.calls = @ + Reached(areq[r]),
                                  !.existed = Find(areq[r].body.email) # 0]
             row == Find(q.body.email)
             err == Wrap("failed to get user by email", <<e>>)
         IN areq' = [areq EXCEPT ![r] =
              IF q.kind = "register"
              THEN IF e # "nil"
                   THEN handlerRespondWithError(q, StatusInternalServerError,
                            "failed to register user",
                            Wrap("failed to check existing user", err))
                   ELSE IF row # 0
                   THEN handlerRespondWithError(q, StatusConflict, "user already exists",
                                                <<"user already exists">>)
                   ELSE [q EXCEPT !.pc = "hash"]
              ELSE IF e # "nil"
                   THEN handlerRespondWithError(q, StatusInternalServerError,
                            "failed to login", Wrap("failed to get user", err))
                   ELSE IF row = 0
                   THEN handlerRespondWithError(q, StatusUnauthorized, "invalid credentials",
                                                <<"invalid credentials">>)
                   ELSE [q EXCEPT !.pc = "verify", !.found = row]]
    /\ UNCHANGED <<users, served>>

\* what was done for the request after its context was cancelled
Late(q, work) == IF q.ctx = "canceled" THEN q.late \cup {work} ELSE q.late

\* Register: bcrypt.GenerateFromPassword([]byte(req.Password), bcrypt.DefaultCost)
Hash(r) ==
    /\ areq[r].pc = "hash"
    /\ \E strict \in BOOLEAN :
         LET q == [areq[r] EXCEPT !.late = Late(areq[r], "hash")]
             h == GenerateFromPassword(q.body.password, strict)
         IN areq' = [areq EXCEPT ![r] =
              IF h.err # <<>>
              THEN handlerRespondWithError(q, StatusInternalServerError,
                       "failed to register user", Wrap("failed to hash password", h.err))
              ELSE [q EXCEPT !.pc = "create", !.hash = h.hash]]
    /\ UNCHANGED <<users, served>>

\* UserRepository.Create: the error it returns for the error e of the driver
CreateError(e) ==
    IF e = PqDuplicate THEN <<"user already exists">>
    ELSE Wrap("failed to create user", <<e>>)

\* Register: s.userRepo.Create(ctx, user), then generateToken and 201
Create(r) ==
    /\ areq[r].pc = "create"
    /\ \E e \in StorageErrors(areq[r]) :
         LET q == [areq[r] EXCEPT !.calls = @ + Reached(areq[r])]
             dup == Find(q.body.email) # 0
             de == IF e = "nil" /\ dup THEN PgxDuplicate ELSE e
             id == Len(users) + 1
         IN IF de # "nil"
            THEN /\ areq' = [areq EXCEPT ![r] =
                       IF CreateError(de) = <<"user already exists">>
                       THEN handlerRespondWithError(q, StatusConflict, "user already exists",
                                                    <<"user already exists">>)
                       ELSE handlerRespondWithError(q, StatusInternalServerError,
                                "failed to register user",
                                Wrap("failed to create user", CreateError(de)))]
                 /\ users' = users
            ELSE /\ users' = Append(users, [email |-> q.body.email, hash |-> q.hash,
                                            password |-> q.body.password])
                 /\ areq' = [areq EXCEPT ![r] =
                       respondWithJSON([q EXCEPT !.stored = TRUE], StatusCreated,
                                       generateToken(id, clock), id)]
    /\ UNCHANGED served

\* Login: bcrypt.CompareHashAndPassword, then generateToken and 200
Compare(r) ==
    /\ areq[r].pc = "verify"
    /\ LET q == [areq[r] EXCEPT !.late = Late(areq[r], "verify")]
       IN areq' = [areq EXCEPT ![r] =
            IF ~CompareHashAndPassword(users[q.found].hash, q.body.password)
            THEN handlerRespondWithError(q, StatusUnauthorized, "invalid credentials",
                                         <<"invalid credentials">>)
            ELSE respondWithJSON(q, StatusOK, generateToken(q.found, clock), q.found)]
    /\ UNCHANGED <<users, served>>

\* the client goes away: the context of the request is cancelled
CancelCtx(r) ==
    /\ areq[r].pc \in {"lookup", "hash", "create", "verify"}
    /\ areq[r].ctx = "live"
    /\ areq' = [areq EXCEPT ![r].ctx = "canceled"]
    /\ UNCHANGED <<users, served>>

\* the handler has returned; the next request takes its place
Retire(r) ==
    /\ areq[r].pc = "done"
    /\ served < MaxAReq
    /\ areq' = [areq EXCEPT ![r] = NoAReq]
    /\ UNCHANGED <<users, served>>

AccountsNext ==
    \/ (\E kind \in {"register", "login"}, body \in Bodies : Start(kind, body))
          /\ UNCHANGED exceptAccounts
    \/ (\E r \in Handlers : GetByEmail(r)) /\ UNCHANGED exceptAccounts
    \/ (\E r \in Handlers : Hash(r)) /\ UNCHANGED exceptAccounts
    \/ (\E r \in Handlers : Create(r)) /\ UNCHANGED exceptAccounts
    \/ (\E r \in Handlers : Compare(r)) /\ UNCHANGED exceptAccounts
    \/ (\E r \in Handlers : CancelCtx(r)) /\ UNCHANGED exceptAccounts
    \/ (\E r \in Handlers : Retire(r)) /\ UNCHANGED exceptAccounts

SpecAccounts == AccountsInit /\ [][AccountsNext]_vars

\* ======================================================================
\* One bucket and the requests of its address (RateLimitMiddleware, lines
\* 206-232): admitted requests call Allow(), denied ones go on to Reserve(),
\* Delay() and Cancel().  twin is the bucket the admitted requests alone
\* would have left.
\* ======================================================================
Denials == 1..MaxDenied

BucketInit ==
    /\ now = 0
    /\ burst \in 0..MaxBurst
    /\ limiters = [a \in Addrs |-> NoBucket]
    /\ buckets = <<>>
    /\ req = [r \in Requests |-> NewRequest]
    /\ bucket = NewLimiter("a")
    /\ twin = NewLimiter("a")
    /\ denied = [d \in Denials |-> NoDenied]
    /\ IPIdle /\ AuthIdle /\ StartupIdle
    /\ ShutdownIdle /\ ConfigIdle /\ AccountsIdle /\ TxIdle

\* time passes
BucketTick ==
    /\ now < MaxTime
    /\ now' = now + 1
    /\ UNCHANGED <<burst, bucket, twin, denied>>

\* ipLimiter.Allow() of one more request: admitted, or on its way to Reserve()
\* as denied request d (at most MaxDenied requests are denied)
BucketAllow(d) ==
    /\ denied[d].pc = "idle"
    /\ \A e \in Denials : e < d => denied[e].pc # "idle"
    /\ LET out == reserveN(bucket, now, 0) IN
         IF out[1].ok
         THEN /\ bucket' = out[2]
              /\ twin' = reserveN(twin, now, 0)[2]
              /\ UNCHANGED denied
         ELSE /\ denied' = [denied EXCEPT ![d].pc = "reserve"]
              /\ UNCHANGED <<bucket, twin>>
    /\ UNCHANGED <<now, burst>>

\* ipLimiter.Reserve() of a denied request; a reservation that is not OK is
\* cancelled (a no-op) and the request answered at once
BucketReserve(d) ==
    /\ denied[d].pc = "reserve"
    /\ LET out == reserveN(bucket, now, -1) IN
         /\ bucket' = out[2]
         /\ denied' = [denied EXCEPT ![d] = IF out[1].ok
                                            THEN [pc |-> "cancel", res |-> out[1]]
                                            ELSE [NoDenied EXCEPT !.pc = "done"]]
    /\ UNCHANGED <<now, burst, twin>>

\* reservation.Delay() and reservation.Cancel() of a denied request
BucketCancel(d) ==
    /\ denied[d].pc = "cancel"
    /\ bucket' = CancelAt(denied[d].res, bucket, now)
    /\ denied' = [denied EXCEPT ![d] = [NoDenied EXCEPT !.pc = "done"]]
    /\ UNCHANGED <<now, burst, twin>>

BucketNext ==
    \/ BucketTick /\ UNCHANGED exceptBucket
    \/ (\E d \in Denials : BucketAllow(d)) /\ UNCHANGED exceptBucket
    \/ (\E d \in Denials : BucketReserve(d)) /\ UNCHANGED exceptBucket
    \/ (\E d \in Denials : BucketCancel(d)) /\ UNCHANGED exceptBucket

SpecBucket == BucketInit /\ [][BucketNext]_vars

\* ======================================================================
\* DB.WithTransaction (part_000, lines 104-133): one call.  What BeginTx, fn,
\* Rollback and Commit answer is drawn when the call starts; the context of the
\* call can be cancelled at any step, and database/sql then rolls the open
\* transaction back on its own.
\* ======================================================================
TxBeginErrors == {"nil", "connection refused"}
FnOutcomes == {"nil", "sql: no rows in result set", "panic"}
TxEndErrors == {"nil", "driver: bad connection"}
ErrTxDone == "sql: transaction has already been committed or rolled back"

TxInit ==
    /\ \E b \in TxBeginErrors, f \in FnOutcomes, rb \in TxEndErrors, cm \in TxEndErrors :
         tx = [NoTx EXCEPT !.pc = "begin", !.begin = b, !.fn = f,
                           !.rollback = rb, !.commit = cm]
    /\ LimiterIdle /\ IPIdle /\ AuthIdle /\ StartupIdle
    /\ ShutdownIdle /\ ConfigIdle /\ AccountsIdle /\ BucketIdle

\* (mutant) a WithTransaction that commits whatever fn did
AfterFnCommit(outcome) == "commit"

\* where WithTransaction goes once fn(tx) is over: the deferred recover for a
\* panic, the rollback for an error, the commit for nil
AfterFn(outcome) ==
    CASE outcome = "panic" -> "recover"
      [] outcome = "nil" -> "commit"
      [] OTHER -> "rollback"

\* tx.Rollback() or tx.Commit() of sql.Tx: the transaction after the call and
\* the error of the call; a transaction that is over answers ErrTxDone
EndTx(t, how, answer) ==
    IF t.ended # <<>>
    THEN [t |-> t, err |-> ErrTxDone]
    ELSE [t |-> [t EXCEPT !.ended = <<how>>], err |-> answer]

\* tx, err := db.BeginTx(ctx, nil) and the return when it fails
BeginTx ==
    /\ tx.pc = "begin"
    /\ LET e == IF tx.ctx = "canceled" THEN "context canceled" ELSE tx.begin
       IN tx' = IF e # "nil"
                THEN [tx EXCEPT !.pc = "returned",
                                !.ret = Wrap("failed to begin transaction", <<e>>)]
                ELSE [tx EXCEPT !.pc = "fn"]

\* fn(tx)
CallFn ==
    /\ tx.pc = "fn"
    /\ tx' = [tx EXCEPT !.calls = @ + 1, !.pc = AfterFn(tx.fn),
                        !.panic = IF tx.fn = "panic" THEN "panic" ELSE ""]

\* fn returned an error: tx.Rollback(), a log record when that fails, return err
RollbackOnError ==
    /\ tx.pc = "rollback"
    /\ LET out == EndTx([tx EXCEPT !.rollbacks = @ + 1], "rollback", tx.rollback)
       IN tx' = [out.t EXCEPT !.pc = "returned", !.ret = <<tx.fn>>,
                              !.logs = IF out.err # "nil"
                                       THEN Append(@, [level |-> "error",
                                                       msg |-> "failed to rollback transaction",
                                                       err |-> out.err])
                                       ELSE @]

\* fn panicked: the deferred function recovers, rolls back and panics again
RecoverAndRollback ==
    /\ tx.pc = "recover"
    /\ LET out == EndTx([tx EXCEPT !.rollbacks = @ + 1], "rollback", tx.rollback)
       IN tx' = [out.t EXCEPT !.pc = "panicked"]

\* fn returned nil: tx.Commit() and the return
CommitTx ==
    /\ tx.pc = "commit"
    /\ LET out == EndTx([tx EXCEPT !.commits = @ + 1], "commit", tx.commit)
       IN tx' = [out.t EXCEPT !.pc = "returned",
                              !.ret = IF out.err # "nil"
                                      THEN Wrap("failed to commit transaction", <<out.err>>)
                                      ELSE <<>>]

\* the context of the call is cancelled; database/sql rolls back a transaction
\* that is open
TxCtxDone ==
    /\ tx.pc \in {"begin", "fn", "rollback", "recover", "commit"}
    /\ tx.ctx = "live"
    /\ tx' = [tx EXCEPT !.ctx = "canceled",
                        !.ended = IF tx.pc # "begin" /\ @ = <<>> THEN <<"ctx">> ELSE @]

TxNext ==
    \/ BeginTx /\ UNCHANGED exceptTx
    \/ CallFn /\ UNCHANGED exceptTx
    \/ RollbackOnError /\ UNCHANGED exceptTx
    \/ RecoverAndRollback /\ UNCHANGED exceptTx
    \/ CommitTx /\ UNCHANGED exceptTx
    \/ TxCtxDone /\ UNCHANGED exceptTx

SpecTx == TxInit /\ [][TxNext]_vars

\* ======================================================================
\* Properties
\* ======================================================================
Allocated == 1..Len(buckets)
Range(f) == {f[i] : i \in DOMAIN f}
Capacity == burst * TicksPerToken

\* the requests of client address a that have fetched a bucket
Fetched(a) == {r \in Requests : req[r].ip = a /\ req[r].lim # NoBucket}
AdmittedOf(S) == {r \in S : req[r].decision = "admit"}
DeniedOf(S) == {r \in S : req[r].decision = "deny"}
OnBucket(b) == {r \in Requests : req[r].lim = b}

\* no cleanup has emptied the map yet: every bucket is still the one of its key
NoEvictionYet == \A b \in Allocated : limiters[buckets[b].key] = b

\* C1: while no time has elapsed since a bucket was created, at no point are
\* more than burst of the requests that run against it admitted, under every
\* interleaving of their steps; once all M of them are decided exactly
\* min(M, burst) are admitted and the other M - min(M, burst) are denied.  Until
\* a cleanup, the requests of one client address all run against one bucket.
C1_ExactlyCapacityAdmitted ==
    /\ \A b \in Allocated :
         now = buckets[b].born =>
           LET S == OnBucket(b) IN
             /\ Cardinality(AdmittedOf(S)) <= burst
             /\ (\A r \in S : req[r].decision # "none") =>
                  /\ Cardinality(AdmittedOf(S)) = Min(Cardinality(S), burst)
                  /\ Cardinality(DeniedOf(S)) = Cardinality(S) - Min(Cardinality(S), burst)
    /\ NoEvictionYet => \A a \in Addrs : \A r \in Fetched(a) : req[r].lim = limiters[a]

\* more requests than tokens, one address, one bucket, all decided in the
\* instant the bucket was created
C1_Witness ==
    \E a \in Addrs :
      /\ NoEvictionYet /\ burst >= 1 /\ limiters[a] # NoBucket
      /\ now = buckets[limiters[a]].born
      /\ Cardinality(Fetched(a)) > burst
      /\ \A r \in Fetched(a) : req[r].pc = "done"
      /\ Cardinality(AdmittedOf(Fetched(a))) = burst
      /\ Cardinality(DeniedOf(Fetched(a))) >= 1

\* C2: on a bucket created less than one refill period ago, the k-th admission
\* check is admitted when k <= burst and denied when k > burst.
C2_FirstBurstAdmitted ==
    [][\A r \in Requests :
         (/\ req[r].pc = "allow" /\ req'[r].pc # "allow"
          /\ now - buckets[req[r].lim].born < TicksPerToken)
         => LET k == Cardinality({q \in OnBucket(req[r].lim) :
                                    req[q].decision # "none"}) + 1
            IN  req'[r].decision = IF k <= burst THEN "admit" ELSE "deny"]_vars

\* check burst+1 on a young bucket has been denied after burst admissions
C2_Witness ==
    \E b \in Allocated :
      /\ burst >= 1
      /\ now - buckets[b].born < TicksPerToken
      /\ Cardinality(AdmittedOf(OnBucket(b))) = burst
      /\ Cardinality(DeniedOf(OnBucket(b))) >= 1

\* C3 (as claimed): every bucket holds between 0 and burst tokens in every
\* reachable state, the states between Reserve() and Cancel() included.
C3_TokensWithinCapacity ==
    \A b \in Allocated : 0 <= buckets[b].tokens /\ buckets[b].tokens <= Capacity

\* the number of consecutive Allow() calls at time t a bucket would admit
RECURSIVE AdmitsAvailable(_, _)
AdmitsAvailable(lim, t) ==
    LET out == reserveN(lim, t, 0)
    IN  IF out[1].ok THEN 1 + AdmitsAvailable(out[2], t) ELSE 0

\* ceil(1/rps) seconds, rps >= 1, in ticks
OneSecond(rps) == rps * TicksPerToken

\* a bucket emptied by admissions: less than one token left, none owed, and no
\* request in the denial path holding a reservation on it
Exhausted(b) ==
    /\ 0 <= buckets[b].tokens /\ buckets[b].tokens < TicksPerToken
    /\ Cardinality(AdmittedOf(OnBucket(b))) >= 1
    /\ \A r \in OnBucket(b) : req[r].pc \notin {"reserve", "delay", "cancel"}

\* C4 (as claimed): ceil(1/rps) seconds after a bucket was exhausted exactly one
\* further admission check succeeds.
C4_ExactlyOneAfterWait ==
    \A b \in Allocated, rps \in RpsValues :
      (Exhausted(b) /\ now = buckets[b].last + OneSecond(rps))
        => AdmitsAvailable(buckets[b], now) = 1

\* C4 (amended): ceil(1/rps) seconds after a bucket was exhausted exactly
\* min(rps, burst) further admission checks succeed.
C4_RefillAfterWait ==
    \A b \in Allocated, rps \in RpsValues :
      (Exhausted(b) /\ now = buckets[b].last + OneSecond(rps))
        => AdmitsAvailable(buckets[b], now) = Min(rps, burst)

C4_Witness ==
    \E b \in Allocated :
      /\ Exhausted(b) /\ now = buckets[b].last + OneSecond(2)
      /\ burst >= 2
      /\ AdmitsAvailable(buckets[b], now) = 2

\* C5: a denied request gets Retry-After, status 429 and the fixed body from
\* the rate limiter and never reaches the next handler; an admitted request is
\* passed to the next handler exactly once and the rate limiter writes nothing.
C5_DenyStopsAdmitForwards ==
    \A r \in Requests :
      /\ (req[r].decision = "deny" /\ req[r].pc = "done") =>
           /\ "Retry-After" \in req[r].headers
           /\ req[r].retryAfter.kind # "unset"
           /\ req[r].status = StatusTooManyRequests
           /\ req[r].body = TooManyRequestsBody
           /\ req[r].writer = "ratelimit"
      /\ req[r].decision = "deny" =>
           /\ req[r].nextCalls = 0
           /\ "handler" \notin Range(req[r].trace)
      /\ req[r].decision = "admit" =>
           /\ req[r].nextCalls = 1
           /\ req[r].writer # "ratelimit"
           /\ "Retry-After" \notin req[r].headers
           /\ req[r].retryAfter.kind = "unset"
           /\ req[r].status # StatusTooManyRequests

C5_Witness ==
    \E r, q \in Requests :
      /\ req[r].pc = "done" /\ req[r].decision = "deny"
      /\ req[q].pc = "done" /\ req[q].decision = "admit"

\* C6 (as claimed): the Retry-After of every denied request is strictly positive.
C6_RetryAfterPositive ==
    \A r \in Requests :
      req[r].retryAfter.kind # "unset" => req[r].retryAfter.value > 0

\* C6 (amended): the Retry-After of a denied request is never negative; it is
\* 60 when no reservation can be made, and strictly positive when Delay() is
\* read less than one refill period after the bucket was created.
C6_RetryAfterNonNegative ==
    \A r \in Requests :
      /\ req[r].retryAfter.kind = "fallback" =>
           req[r].retryAfter.value = RetryAfterFallback /\ ~req[r].res.ok
      /\ req[r].retryAfter.kind = "delay" => req[r].retryAfter.value >= 0
      /\ (req[r].pc = "cancel" /\ now - buckets[req[r].lim].born < TicksPerToken)
           => req[r].retryAfter.value > 0

\* a positive delay read on a young bucket
C6_Witness ==
    \E r \in Requests :
      /\ req[r].pc = "cancel"
      /\ now - buckets[req[r].lim].born < TicksPerToken
      /\ req[r].retryAfter.value = TicksPerToken

\* C7: a cleanup empties the map for every address in one step, and a request
\* whose address is absent from the map gets a bucket created for it, full and
\* shared with no earlier request.
C7_WholesaleEviction ==
    [][/\ (limiters' # limiters /\ buckets' = buckets) =>
            \A a \in Addrs : limiters'[a] = NoBucket
       /\ \A r \in Requests :
            (req[r].pc = "new" /\ req'[r].pc = "allow" /\ limiters[req'[r].ip] = NoBucket)
            => /\ req'[r].lim = Len(buckets) + 1
               /\ Len(buckets') = Len(buckets) + 1
               /\ buckets'[req'[r].lim].tokens = Capacity
               /\ buckets'[req'[r].lim].key = req'[r].ip
               /\ limiters'[req'[r].ip] = req'[r].lim
               /\ \A q \in Requests \ {r} : req'[q].lim # req'[r].lim]_vars

\* an address with traffic on a drained bucket was evicted and its next request
\* waits at Allow() on a second, full bucket
C7_Witness ==
    \E r \in Requests :
      /\ req[r].pc = "allow" /\ req[r].lim = 2
      /\ buckets[1].key = buckets[2].key
      /\ buckets[1].tokens < Capacity
      /\ buckets[2].tokens = Capacity
      /\ burst >= 1

Rank(stage) ==
    CASE stage = "logger" -> 1
      [] stage = "security" -> 2
      [] stage = "ratelimit" -> 3
      [] stage = "auth" -> 4
      [] stage = "handler" -> 5
      [] stage = "log" -> 6

\* C9: the stages run in the order tracing, security headers, admission,
\* handler; a denied request never reaches authentication or the handler and
\* still gets its completion record, with status 429; nothing validates a
\* token before the admission decision.
C9_StageOrder ==
    \A r \in Requests :
      LET t == req[r].trace IN
        /\ \A i, j \in DOMAIN t : i < j => Rank(t[i]) < Rank(t[j])
        /\ "security" \in Range(t) => "logger" \in Range(t)
        /\ "ratelimit" \in Range(t) => "security" \in Range(t)
        /\ "log" \in Range(t) => "ratelimit" \in Range(t) /\ req[r].decision # "none"
        /\ ("handler" \in Range(t) \/ "auth" \in Range(t)) =>
             "ratelimit" \in Range(t) /\ req[r].decision = "admit"
        /\ (req[r].decision = "deny" /\ req[r].pc = "done") =>
             /\ "handler" \notin Range(t) /\ "auth" \notin Range(t)
             /\ t[Len(t)] = "log"
             /\ Len(req[r].logs) = 1
             /\ req[r].logs[1].status = StatusTooManyRequests

C9_Witness ==
    \E r \in Requests :
      /\ req[r].pc = "done" /\ req[r].decision = "deny"
      /\ req[r].trace = <<"logger", "security", "ratelimit", "log">>
      /\ req[r].logs[1].status = StatusTooManyRequests

\* C10 (as claimed): every response carries X-Request-ID and every request the
\* server has answered has emitted exactly one "http request" record.
C10_EveryResponseTraced ==
    \A r \in Requests :
      /\ req[r].status # 0 => "X-Request-ID" \in req[r].headers
      /\ req[r].pc = "done" =>
           Len(req[r].logs) = 1 /\ req[r].logs[1].msg = "http request"

\* ------------------------------------------------ properties of SpecAuth
WellFormedHeader == authz.scheme = "Bearer" /\ authz.args = 1
EmptyHeader == authz.scheme = "" /\ authz.args = 0
\* the token at hand is the one generateToken returned
Pristine == issued # NotIssued /\ token = issued.tok
\* the signature segment decodes to the HMAC of the token under the secret
SignedByServer(tok) == DecodeSegment(tok.sig) = HMAC(tok.alg, jwtSecret, tok)
ExpTick(tok) == tok.exp * SubSecond
Day == TokenTTL * SubSecond

\* C11: the authentication stage answers 401 "missing authorization header"
\* to an empty Authorization header, 401 "invalid authorization header format"
\* to a header that is not the two parts "Bearer" and a token, and 401
\* "invalid or expired token" when ValidateToken returns an error; in none of
\* the three cases is the next handler invoked.
C11_Unauthorized ==
    resp.done =>
      /\ EmptyHeader =>
           /\ resp.status = StatusUnauthorized
           /\ resp.body = "missing authorization header"
           /\ resp.nextCalls = 0 /\ ~resp.validated
      /\ (~EmptyHeader /\ ~WellFormedHeader) =>
           /\ resp.status = StatusUnauthorized
           /\ resp.body = "invalid authorization header format"
           /\ resp.nextCalls = 0 /\ ~resp.validated
      /\ (WellFormedHeader /\ ValidateToken(token, clock, decodeFirst).err # NoError) =>
           /\ resp.status = StatusUnauthorized
           /\ resp.body = "invalid or expired token"
           /\ resp.nextCalls = 0 /\ resp.validated

\* a changed token behind a well-formed header was turned away
C11_Witness ==
    /\ resp.done /\ resp.status = StatusUnauthorized /\ resp.nextCalls = 0
    /\ WellFormedHeader /\ resp.body = "invalid or expired token" /\ edits = 1

\* C12: the handler behind the authentication stage runs only if ValidateToken
\* succeeded for the presented token, it then runs exactly once, and the user
\* id it reads with GetUserIDFromContext is the sub claim of that token.
C12_HandlerSeesSubject ==
    /\ resp.nextCalls <= 1
    /\ resp.nextCalls = 1 =>
         /\ WellFormedHeader /\ resp.validated
         /\ token.form = "ok" /\ token.alg \in HMACAlgs /\ SignedByServer(token)
         /\ token.exp # NoClaim => clock < ExpTick(token)
         /\ token.sub.t = "num"
         /\ resp.handlerOK /\ resp.handlerUserID = token.sub.v
         /\ resp.status = StatusOK
    /\ (resp.done /\ resp.nextCalls = 0) => resp.status = StatusUnauthorized

C12_Witness ==
    /\ Pristine /\ WellFormedHeader /\ resp.done
    /\ resp.nextCalls = 1 /\ resp.handlerOK
    /\ resp.handlerUserID = issued.sub /\ issued.sub = MaxUser

\* C13: validating a token in the instant it was issued, with the same secret,
\* returns the subject it was issued for and no error, for every subject.
C13_RoundTrip ==
    (result.called /\ Pristine /\ clock = issued.at) =>
      result.err = NoError /\ result.userID = issued.sub

C13_Witness ==
    /\ result.called /\ Pristine /\ clock = issued.at
    /\ result.err = NoError /\ result.userID = MaxUser

C15_OnlyHS256 ==
    (result.called /\ token.alg # "HS256") => result.err # NoError

\* C15: a token whose alg is not an HMAC method (none, another family, missing
\* or unknown) is rejected whatever its payload, also when its signature
\* segment was computed with the server's secret.  (HS384 and HS512 pass the
\* method check: with a signature made with the secret they are accepted.)
C15_OnlyHMAC ==
    (result.called /\ token.alg \notin HMACAlgs) =>
      /\ result.err \in {{"unverifiable"}, {"malformed"}}
      /\ result.userID = 0

\* alg none, signature segment computed with the secret over this very token
C15_Witness ==
    /\ result.called /\ token.form = "ok" /\ token.alg = "none"
    /\ token.sig = Encode(HMAC("none", jwtSecret, token))
    /\ result.err = {"unverifiable"}

\* what differs between the token at hand and the issued one
SigChanged == token.sig # issued.tok.sig
RestChanged == [token EXCEPT !.sig = issued.tok.sig] # issued.tok

\* C16 (as the spec has it): changing the signature segment of a valid token,
\* or changing a claim without signing again, makes ValidateToken fail with a
\* signature error; no token signed with another secret is accepted.
C16_TamperedIsBadSignature ==
    /\ (result.called /\ issued # NotIssued /\ SigChanged /\ ~RestChanged) =>
         "signature" \in result.err
    /\ (result.called /\ issued # NotIssued /\ ~SigChanged /\ token.form = "ok"
          /\ token.alg = issued.tok.alg /\ RestChanged) =>
         "signature" \in result.err
    /\ (result.called /\ token.sig.mac.key # jwtSecret) => result.err # NoError

\* C17: every token generateToken returns carries sub = the user's id, iat =
\* the issue time in whole seconds and exp = iat + 24 hours, and is signed with
\* HMAC-SHA256 under the secret.
C17_IssuedClaims ==
    issued # NotIssued =>
      /\ issued.tok.form = "ok"
      /\ issued.tok.sub = Num(issued.sub)
      /\ issued.tok.iat = Unix(issued.at)
      /\ issued.tok.exp = issued.tok.iat + TokenTTL
      /\ issued.tok.nbf = NoClaim
      /\ issued.tok.alg = "HS256"
      /\ DecodeSegment(issued.tok.sig).hash = "SHA256"
      /\ DecodeSegment(issued.tok.sig).key = jwtSecret
      /\ SignedByServer(issued.tok)

C17_Witness ==
    /\ issued # NotIssued /\ issued.sub = MaxUser /\ issued.at = SubSecond - 1
    /\ issued.tok.iat = 0 /\ issued.tok.exp = TokenTTL

\* the causes of an error
Malformed == "malformed" \in result.err
BadSignature == "signature" \in result.err \/ "unverifiable" \in result.err
Expired == "expired" \in result.err
MissingSubject == "subject" \in result.err
Kinds == {k \in 1..4 : \/ (k = 1 /\ Malformed)
                        \/ (k = 2 /\ BadSignature)
                        \/ (k = 3 /\ Expired)
                        \/ (k = 4 /\ MissingSubject)}

C18_NotValidYet ==
    /\ result.called /\ SignedByServer(token) /\ token.sub.t = "num"
    /\ result.err = {"claims", "notvalidyet"}

\* --------------------------------------------- properties of SpecStartup
Returned == {i \in DOMAIN probes : probes[i].end >= 0}
Succeeded == {i \in Returned : probes[i].ok}

\* C19: the server listens, and a request is accepted, only after a probe has
\* succeeded; when verification ends without a successful probe, database.New
\* has closed the handle and returned an error, main has ended, and the
\* server neither listens nor has accepted a request.
C19_ListenAfterProbe ==
    /\ listening => Succeeded # {} /\ newErr = "nil" /\ dbOpen = "open"
    /\ accepted > 0 => listening
    /\ spc \in {"established", "listening"} => Succeeded # {}
    /\ (newErr # "pending" /\ Succeeded = {}) =>
         /\ newErr \in {"open", "ping"}
         /\ spc = "fatal" /\ ~listening /\ accepted = 0
         /\ newErr = "ping" => dbOpen = "closed"
         /\ newErr = "open" => dbOpen = "none"

\* all five probes failed
C19_Witness ==
    /\ Len(probes) = MaxRetries /\ Returned = DOMAIN probes /\ Succeeded = {}
    /\ spc = "fatal" /\ newErr = "ping" /\ dbOpen = "closed"
    /\ ~listening /\ accepted = 0

\* C20: the first successful probe ends the verification at once with
\* success: it is the last probe, no backoff wait follows it (k - 1 waits
\* for the k-th probe), and no time passes before database.New has the DB.
C20_FirstSuccessReturns ==
    \A i \in Succeeded :
      /\ i = Len(probes)
      /\ Len(waits) = i - 1
      /\ \A j \in 1..(i - 1) : ~probes[j].ok
      /\ spc \in {"established", "listening", "fatal"}
      /\ newErr = "nil" /\ perr = "nil"
      /\ sclock = probes[i].end

\* success at the third probe, after two backoff waits
C20_Witness ==
    /\ Len(probes) = 3 /\ Succeeded = {3} /\ Len(waits) = 2
    /\ spc = "established" /\ sclock = probes[3].end

\* ---------------------------------------------- properties of SpecShutdown
Exited == mpc = "exited"
Killed == {c \in Conns : conns[c].state = "killed"}

\* C21: once the interrupt signal is delivered the process always exits, and
\* srv.Shutdown never waits past the 30 s grace period: with requests still in
\* flight at the deadline main reports "server forced to shutdown" and exits.
C21_ExitsWithinGrace ==
    /\ [](grace <= GracePeriod)
    /\ [](Exited /\ Killed # {} => report = "server forced to shutdown")
    /\ (sig = "pending") ~> Exited

C21_Witness ==
    /\ Exited /\ Killed # {} /\ grace = GracePeriod
    /\ report = "server forced to shutdown"

Accepted == {c \in Conns : conns[c].state # "none"}

\* C22 (as stated): no connection is accepted after the signal is received;
\* requests in flight may finish until the grace period is over; "server
\* stopped gracefully" is reported only when none is left in flight.
C22_NoAcceptAfterSignal ==
    /\ \A c \in Accepted : conns[c].phase \in {"serving", "signalled"}
    /\ Killed # {} => grace = GracePeriod
    /\ report = "server stopped gracefully" => Active = {} /\ Killed = {}

\* C22 (amended): no connection is accepted once srv.Shutdown has been called
\* (the listeners stay open between <-quit and that call); no request is cut
\* off before the 30 s grace period is over; "server stopped gracefully" is
\* reported only when no request is left in flight.
C22_NoAcceptAfterShutdown ==
    /\ \A c \in Accepted : conns[c].phase \in {"serving", "signalled", "notified"}
    /\ Killed # {} => grace = GracePeriod /\ report = "server forced to shutdown"
    /\ report = "server stopped gracefully" => Active = {} /\ Killed = {}

C22_Witness ==
    /\ Exited /\ report = "server stopped gracefully" /\ grace > 0
    /\ \E c \in Conns : conns[c].state = "done" /\ conns[c].phase = "notified"
    /\ \E c \in Conns : conns[c].state = "done" /\ conns[c].phase = "serving"

\* ------------------------------------- more properties of SpecStartup
VerificationFailed == spc = "fatal" /\ newErr = "ping"
TimerWaits == [i \in 1..(MaxRetries - 1) |-> i]

\* C30: when every probe fails, database.New reports the failure after all 5
\* probes, separated by waits of 1 s, 2 s, 3 s and 4 s that ran to their end,
\* before the 10 s of the context are over, and the error it reports is the
\* last probe's own and not the context's.
C30_ExhaustedInsideTimeout ==
    VerificationFailed =>
        /\ Len(probes) = MaxRetries
        /\ Len(waits) >= MaxRetries - 1
        /\ \A i \in 1..(MaxRetries - 1) :
              waits[i].by = "timer" /\ waits[i].to - waits[i].from = TimerWaits[i]
        /\ ~ctxDone
        /\ perr = "ping"

\* ------------------------------------------- more properties of SpecAuth
\* what ValidateToken says of the token of the request
Cause == ValidateToken(token, clock, decodeFirst).err
\* the one response of the stage to a token that failed validation
Rejected ==
    [NoResp EXCEPT !.done = TRUE, !.validated = TRUE,
                   !.status = StatusUnauthorized, !.body = "invalid or expired token"]
Answered == resp.done /\ WellFormedHeader

\* C26: whatever makes ValidateToken fail (a malformed, expired or forged
\* token, one signed with another method, one without a subject), the response
\* of the authentication stage is the same: status 401, body "invalid or
\* expired token", and nothing of the token or of the error in it.
C26_OneRejection ==
    (Answered /\ Cause # NoError) =>
        /\ resp.status = Rejected.status /\ resp.body = Rejected.body
        /\ resp.ctx = NoContext /\ resp.nextCalls = 0

C26_Witness ==
    /\ Answered /\ Cause = {"subject"}
    /\ resp.status = StatusUnauthorized /\ resp.body = "invalid or expired token"

IntegrityError ==
    \/ "signature" \in Cause
    \/ "unverifiable" \in Cause
Audited(l) == l.level \in {"warn", "error"} /\ l.identity # ""

\* C27: every request whose bearer token fails validation for its signature,
\* its signing method or tampered claims leaves a log record at warning or
\* error level that names the offending identity.
C27_IntegrityErrorLogged ==
    (Answered /\ IntegrityError) =>
        \E i \in DOMAIN resp.logs : Audited(resp.logs[i])

\* ------------------------------------------------ properties of SpecConfig
\* an integer in decimal notation
IsInteger(s) ==
    \/ Len(s) >= 1 /\ \A i \in DOMAIN s : s[i] \in Digits
    \/ Len(s) >= 2 /\ s[1] \in {"+", "-"} /\ \A i \in 2..Len(s) : s[i] \in Digits
Initialised == {boot[i] : i \in DOMAIN boot}

\* C29: with DB_PASSWORD or JWT_SECRET empty config.Load returns an error and
\* main exits with nothing initialised (no logger, database, token service or
\* listener); when Load succeeds, a RATE_LIMIT_RPS that is not an integer gives
\* RPS 10 and a RATE_LIMIT_BURST that is not an integer gives Burst 20.
C29_RequiredConfig ==
    boot # <<>> =>
      /\ (env["DB_PASSWORD"] = <<>> \/ env["JWT_SECRET"] = <<>>) =>
            cfg.err # "" /\ boot = <<"exit">>
      /\ cfg.err = "" =>
            /\ ~IsInteger(env["RATE_LIMIT_RPS"]) => cfg.rps = DefaultRPS
            /\ ~IsInteger(env["RATE_LIMIT_BURST"]) => cfg.burst = DefaultBurst
            /\ env["DB_PASSWORD"] # <<>> /\ env["JWT_SECRET"] # <<>>

C29_Witness ==
    /\ boot = <<"exit">> /\ cfg.err = "JWT_SECRET is required"
    /\ env["DB_PASSWORD"] # <<>> /\ env["JWT_SECRET"] = <<>>

\* ---------------------------------------------- properties of SpecAccounts
Done(kind) == {r \in Handlers : areq[r].pc = "done" /\ areq[r].kind = kind}
InvalidJSON(body) == body.form # "json"
FailsValidation(body) == ~IsEmail(body.email) \/ body.password.len < MinPassword
TokenSubject(tok) == ValidateToken(tok, clock, decodeFirst)

\* C23: POST /auth/register answers 201 with a token and the user only when it
\* stored a new user, 409 "user already exists" when the email was taken (and
\* then stores nothing), 400 without any storage call when the body is not
\* valid JSON or fails validation, and 500 otherwise.
C23_RegisterOutcomes ==
    \A r \in Done("register") :
      LET q == areq[r] IN
        /\ q.status \in {StatusCreated, StatusBadRequest, StatusConflict,
                         StatusInternalServerError}
        /\ q.status = StatusCreated =>
              /\ q.stored /\ q.token # NoToken
              /\ q.userID \in DOMAIN users /\ users[q.userID].email = q.body.email
        /\ q.status # StatusCreated => ~q.stored /\ q.token = NoToken
        /\ q.status = StatusConflict =>
              q.existed /\ q.error = "user already exists"
        /\ q.existed => q.status \in {StatusConflict, StatusInternalServerError}
        /\ (InvalidJSON(q.body) \/ FailsValidation(q.body)) =>
              q.status = StatusBadRequest /\ q.calls = 0

\* the password of the request is the one the email was registered with
Correct(q) == users[Find(q.body.email)].password = q.body.password

\* C24: once an email is registered, a login with the registered password is
\* answered 200 with a token that validates to the id of the registration,
\* and a login with another password is answered 401 "invalid credentials"
\* without a token (500 when the storage fails).
C24_LoginAfterRegistration ==
    \A r \in Done("login") :
      LET q == areq[r] IN
        (q.known /\ ~InvalidJSON(q.body)) =>
          IF Correct(q)
          THEN \/ q.status = StatusInternalServerError
               \/ /\ q.status = StatusOK
                  /\ TokenSubject(q.token).err = NoError
                  /\ TokenSubject(q.token).userID = Find(q.body.email)
          ELSE /\ q.token = NoToken
               /\ \/ q.status = StatusInternalServerError
                  \/ q.status = StatusUnauthorized /\ q.error = "invalid credentials"

\* two failures of the same kind: same route, status, reason and failing step
SameFailure(a, b) ==
    /\ a.kind = b.kind /\ a.status = b.status /\ a.error = b.error
    /\ a.message # <<>> /\ b.message # <<>> /\ a.message[1] = b.message[1]

\* C25: two internal failures of the same kind get the same response body:
\* the message sent does not depend on the text of the internal error.
C25_NoInternalDetails ==
    \A r1, r2 \in Handlers :
      (/\ areq[r1].pc = "done" /\ areq[r2].pc = "done"
       /\ areq[r1].status = StatusInternalServerError
       /\ SameFailure(areq[r1], areq[r2])) =>
          areq[r1].message = areq[r2].message

\* C28: after the context of a request is cancelled nothing more is done for
\* it: no query reaches the storage, no password is hashed or verified.
C28_NothingAfterCancel ==
    \A r \in Handlers : areq[r].late = {}

\* pingWithRetry has returned to database.New
PingWithRetryDone == newErr \in {"nil", "ping"}

\* C31: pingWithRetry issues at most 5 probes; the wait after the k-th failed
\* probe lasts exactly k seconds when its timer ends it and is cut short only
\* by the context, in which case pingWithRetry returns the context's error at
\* the very instant of the deadline; it never runs past the 10 s of the
\* context, and it returns nil only after a probe that succeeded.
C31_BoundedRetry ==
    /\ Len(probes) <= MaxRetries
    /\ Len(waits) <= Len(probes)
    /\ sclock <= PingTimeout
    /\ \A k \in DOMAIN waits :
         /\ ~probes[k].ok
         /\ waits[k].by = "timer" => waits[k].to - waits[k].from = k
         /\ waits[k].by = "ctx" =>
              /\ waits[k].to - waits[k].from <= k
              /\ waits[k].to = PingTimeout
              /\ k = Len(waits) /\ k = Len(probes)
              /\ PingWithRetryDone /\ perr = "ctx" /\ newErr = "ping"
    /\ PingWithRetryDone =>
         /\ (newErr = "nil") = (Succeeded # {})
         /\ Succeeded = {} => perr # "nil" /\ spc = "fatal"

\* three full waits, then the deadline cuts the fourth
C31_Witness ==
    /\ PingWithRetryDone /\ perr = "ctx"
    /\ Len(probes) = 4 /\ Len(waits) = 4
    /\ \A k \in 1..3 : waits[k].by = "timer" /\ waits[k].to - waits[k].from = k
    /\ waits[4].by = "ctx" /\ waits[4].to = PingTimeout

\* ------------------------------------- more properties of SpecShutdown
\* C32: the eviction task stops when the server receives the shutdown signal:
\* once main has taken the signal the goroutine of cleanup has ended, and no
\* eviction tick runs while the server shuts down.
C32_CleanupStopsAtShutdown ==
    /\ mpc \in {"notified", "draining"} => cleaner.state # "running"
    /\ cleaner.sweeps \cap {"notified", "draining"} = {}

\* C38: however the process exits once the database handle is open (graceful
\* shutdown, shutdown past the grace period, failure to start the listener),
\* the database connection is closed and the logger flushed before the exit.
C38_ReleasedBeforeExit ==
    Exited => resources.db = "closed" /\ resources.logger = "flushed"

\* ------------------------------------------- more properties of Spec
\* C33: every Allow() is called on the bucket the map holds for the address of
\* the request at that moment: a bucket fetched before an eviction tick is not
\* used after it.
C33_DecisionOnCurrentBucket ==
    [][\A r \in Requests :
         (req[r].pc = "allow" /\ req'[r].pc # "allow")
         => limiters[req[r].ip] = req[r].lim]_vars

\* the buckets created for other addresses than a
BucketsOfOthers(a) == {b \in Allocated : buckets[b].key # a}

Faulted(q) ==
    /\ q.status = StatusInternalServerError
    /\ Last(q.message) \in DriverErrors \cup {"context canceled",
                                               "bcrypt: password length exceeds 72 bytes"}

\* C36: of two register requests for one email that run together, at most one
\* stores a user and is answered 201; the other, when its body is valid and
\* no fault of its own stops it, is answered 409 "user already exists" and
\* stores nothing, also when both passed GetByEmail before either called
\* Create.  The table never holds two rows of one email.
C36_ConcurrentRegister ==
    /\ \A i, j \in DOMAIN users : users[i].email = users[j].email => i = j
    /\ \A r1, r2 \in Done("register") :
         (/\ r1 # r2 /\ areq[r1].body.email = areq[r2].body.email
          /\ areq[r1].status = StatusCreated
          /\ areq[r2].status # StatusBadRequest /\ ~Faulted(areq[r2]))
           => /\ areq[r2].status = StatusConflict
              /\ areq[r2].error = "user already exists"
              /\ ~areq[r2].stored

\* a login that has to be refused: its email had no row when GetByEmail ran,
\* or its password is not the one the email was registered with
Refusable(q) == ~q.existed \/ ~Correct(q)

\* C37: login does not reveal whether an email is registered.  Every login
\* with a well-formed body that no fault of the storage stops is answered, for
\* an unknown email and for a known email with a wrong password alike, 401
\* with the one body "invalid credentials", and gets no token.
C37_LoginDoesNotReveal ==
    \A r \in Done("login") :
      LET q == areq[r] IN
        (/\ ~InvalidJSON(q.body) /\ ~FailsValidation(q.body)
         /\ ~Faulted(q) /\ Refusable(q))
          => /\ q.status = StatusUnauthorized
             /\ q.error = "invalid credentials"
             /\ q.message = <<"invalid credentials">>
             /\ q.token = NoToken

\* ------------------------------------------- properties of SpecBucket
\* C34: a denied request consumes nothing.  Whenever no denied request holds a
\* reservation, the bucket offers at every later time the tokens it would
\* offer had only the admitted requests used it; this holds however the
\* Reserve() and Cancel() calls of several denied requests interleave and
\* whenever a token refills between the failed Allow() and the Reserve().
C34_DeniedConsumesNothing ==
    (\A d \in Denials : denied[d].pc # "cancel")
      => \A t \in now..MaxTime : advance(bucket, t) = advance(twin, t)

\* ------------------------------------------------ properties of SpecTx
\* WithTransaction is over: it returned or let the panic of fn through
TxOver == tx.pc \in {"returned", "panicked"}

\* C39: a call of WithTransaction that began a transaction ends it exactly
\* once: after fn returned nil it has called Commit once and Rollback never;
\* after fn returned an error it has called Rollback once and Commit never and
\* returns the error of fn unchanged, also when the rollback failed; after fn
\* panicked it has called Rollback once and Commit never and the panic goes on.
\* fn is called at most once, and never when BeginTx failed.
C39_TransactionEndsOnce ==
    /\ tx.calls <= 1 /\ Len(tx.ended) <= 1
    /\ tx.commits + tx.rollbacks <= 1
    /\ TxOver =>
         IF tx.calls = 0
         THEN /\ tx.pc = "returned" /\ tx.ret # <<>>
              /\ tx.ret[1] = "failed to begin transaction"
              /\ tx.commits = 0 /\ tx.rollbacks = 0 /\ tx.ended = <<>>
         ELSE /\ Len(tx.ended) = 1
              /\ tx.fn = "nil" =>
                   /\ tx.pc = "returned" /\ tx.commits = 1 /\ tx.rollbacks = 0
                   /\ (tx.ret = <<>>) = (tx.ended = <<"commit">> /\ tx.commit = "nil")
              /\ tx.fn \notin {"nil", "panic"} =>
                   /\ tx.pc = "returned" /\ tx.rollbacks = 1 /\ tx.commits = 0
                   /\ tx.ret = <<tx.fn>>
              /\ tx.fn = "panic" =>
                   /\ tx.pc = "panicked" /\ tx.panic = "panic"
                   /\ tx.rollbacks = 1 /\ tx.commits = 0

\* fn returned an error, the rollback failed and was logged, and the caller
\* got the error of fn
C39_Witness ==
    /\ tx.pc = "returned" /\ tx.calls = 1
    /\ tx.fn = "sql: no rows in result set" /\ tx.ret = <<tx.fn>>
    /\ tx.rollbacks = 1 /\ tx.ended = <<"rollback">>
    /\ tx.logs # <<>> /\ tx.logs[1].err = "driver: bad connection"

====
